---- MODULE Spec2Model ----
(***************************************************************************)
(* A state-machine model of VanReactiveElement (van-reactive-element):     *)
(* the custom-element lifecycle controller (construct, connect, render,    *)
(* mount notification, disconnect, cleanup, disposer registry) and the     *)
(* property / attribute synchronisation engine (property installation,     *)
(* attribute-backed setters with reflection, attributeChangedCallback,     *)
(* converters, naming utility).                                            *)
(*                                                                         *)
(* One element instance of one component class is modelled.  The class     *)
(* (its static `properties` schema, whether it defines render()) is chosen *)
(* in the initial state.  The host runtime (DOM) is the environment: it    *)
(* invokes the lifecycle callbacks, reports isConnected, stores the        *)
(* attributes and dispatches attributeChangedCallback for observed         *)
(* attributes.  User hooks (render, onMount, onCleanup, disposers,         *)
(* converters) may return normally or throw.                               *)
(***************************************************************************)
EXTENDS Integers, Sequences, FiniteSets, TLC

(***************************************************************************)
(* Bounds of the model.                                                    *)
(***************************************************************************)
\* user disposers are numbered 1..MaxDisposers
MaxDisposers == 2
\* number of non-spurious disconnects explored (connection cycles 0..MaxCycles)
MaxCycles == 2
\* number of pending next-frame callbacks explored
MaxFrames == 2
\* number of objects that converters create (JSON.parse, new Date)
MaxCreated == 2
\* length of the identifiers given to the name conversions
MaxWord == 4

(***************************************************************************)
(* JavaScript strings are TLA+ strings; a character is a string of length  *)
(* one.                                                                    *)
(***************************************************************************)
LowerLetters == "abcdefghijklmnopqrstuvwxyz"
UpperLetters == "ABCDEFGHIJKLMNOPQRSTUVWXYZ"
Digits == "0123456789"

CharAt(s, i) == SubSeq(s, i, i)
IsIn(c, alphabet) == \E i \in 1..Len(alphabet) : CharAt(alphabet, i) = c
IsLower(c) == IsIn(c, LowerLetters)
IsUpper(c) == IsIn(c, UpperLetters)
IsDigit(c) == IsIn(c, Digits)
IndexIn(c, alphabet) == CHOOSE i \in 1..Len(alphabet) : CharAt(alphabet, i) = c
LowerChar(c) == IF IsUpper(c) THEN CharAt(LowerLetters, IndexIn(c, UpperLetters)) ELSE c
UpperChar(c) == IF IsLower(c) THEN CharAt(UpperLetters, IndexIn(c, LowerLetters)) ELSE c

RECURSIVE MapChars(_, _, _)
MapChars(s, i, toUpper) ==
    IF i > Len(s) THEN ""
    ELSE (IF toUpper THEN UpperChar(CharAt(s, i)) ELSE LowerChar(CharAt(s, i)))
         \o MapChars(s, i + 1, toUpper)
\* String.prototype.toLowerCase / toUpperCase (ASCII letters)
ToLowerCase(s) == MapChars(s, 1, FALSE)
ToUpperCase(s) == MapChars(s, 1, TRUE)

\* .replace(/([a-z0-9])([A-Z])/g, '$1-$2'): matches do not overlap, the scan
\* resumes after the two characters of a match
RECURSIVE HyphenateLowerUpper(_, _)
HyphenateLowerUpper(s, i) ==
    IF i > Len(s) THEN ""
    ELSE IF /\ i + 1 <= Len(s)
            /\ (IsLower(CharAt(s, i)) \/ IsDigit(CharAt(s, i)))
            /\ IsUpper(CharAt(s, i + 1))
         THEN CharAt(s, i) \o "-" \o CharAt(s, i + 1) \o HyphenateLowerUpper(s, i + 2)
         ELSE CharAt(s, i) \o HyphenateLowerUpper(s, i + 1)

\* .replace(/([A-Z])([A-Z][a-z])/g, '$1-$2'): a match takes three characters
RECURSIVE HyphenateAcronym(_, _)
HyphenateAcronym(s, i) ==
    IF i > Len(s) THEN ""
    ELSE IF /\ i + 2 <= Len(s)
            /\ IsUpper(CharAt(s, i))
            /\ IsUpper(CharAt(s, i + 1))
            /\ IsLower(CharAt(s, i + 2))
         THEN CharAt(s, i) \o "-" \o SubSeq(s, i + 1, i + 2) \o HyphenateAcronym(s, i + 3)
         ELSE CharAt(s, i) \o HyphenateAcronym(s, i + 1)

\* camelAndPascalToKebab: the two replacements, then toLowerCase
\* (variant: without the second replacement)
camelAndPascalToKebabOnePass(str) ==
    ToLowerCase(HyphenateLowerUpper(str, 1))
camelAndPascalToKebab(str) ==
    ToLowerCase(HyphenateAcronym(HyphenateLowerUpper(str, 1), 1))

\* str.split('-'): the words between the hyphens, from position i on, word
\* being the part of the current word read so far
RECURSIVE Split(_, _, _)
Split(str, i, word) ==
    IF i > Len(str) THEN <<word>>
    ELSE IF CharAt(str, i) = "-" THEN <<word>> \o Split(str, i + 1, "")
    ELSE Split(str, i + 1, word \o CharAt(str, i))

\* word.charAt(0).toUpperCase() + word.slice(1)
Capitalize(word) ==
    IF word = "" THEN "" ELSE UpperChar(CharAt(word, 1)) \o SubSeq(word, 2, Len(word))

\* .map((word, index) => index === 0 ? word : capitalized).join(''), from the
\* index-th word on
RECURSIVE JoinCapitalized(_, _)
JoinCapitalized(words, index) ==
    IF index > Len(words) THEN ""
    ELSE (IF index = 1 THEN words[index] ELSE Capitalize(words[index]))
         \o JoinCapitalized(words, index + 1)

kebabToCamel(str) == JoinCapitalized(Split(str, 1, ""), 1)

(***************************************************************************)
(* JavaScript values.  A value is a record: k is its type, s its payload   *)
(* (the decimal text of a number, the text of a string, the JSON text of   *)
(* an object, the ISO text of a Date), id the identity of an object (0 for *)
(* a primitive).  Numbers are integers and NaN.                            *)
(***************************************************************************)
Null == [k |-> "null", s |-> "", id |-> 0]
Undefined == [k |-> "undefined", s |-> "", id |-> 0]
Bool(b) == [k |-> "boolean", s |-> IF b THEN "true" ELSE "false", id |-> 0]
Num(text) == [k |-> "number", s |-> text, id |-> 0]
NaN == Num("NaN")
Str(text) == [k |-> "string", s |-> text, id |-> 0]
Obj(json, id) == [k |-> "object", s |-> json, id |-> id]
Date(iso, id) == [k |-> "date", s |-> iso, id |-> id]
InvalidDate == "Invalid Date"
\* a cell made by van.state: an object with the member val
State(name, id) == [k |-> "state", s |-> name, id |-> id]

\* value && typeof value === 'object' && 'val' in value
isValueState(value) == value.k = "state"

IsNullish(v) == v.k \in {"null", "undefined"}

\* a === b: NaN is not equal to itself, objects are equal by identity
StrictEquals(a, b) == a = b /\ a # NaN

\* ToBoolean
Truthy(v) ==
    CASE v.k \in {"null", "undefined"} -> FALSE
      [] v.k = "boolean" -> v.s = "true"
      [] v.k = "number" -> v.s \notin {"0", "NaN"}
      [] v.k = "string" -> v.s # ""
      [] OTHER -> TRUE

\* String(v); an array prints its elements, any other object its tag
JSString(v) ==
    CASE v.k = "null" -> "null"
      [] v.k = "undefined" -> "undefined"
      [] v.k = "object" ->
            IF Len(v.s) >= 2 /\ CharAt(v.s, 1) = "["
            THEN SubSeq(v.s, 2, Len(v.s) - 1)
            ELSE "[object Object]"
      [] OTHER -> v.s

RECURSIVE AllDigits(_, _)
AllDigits(s, i) == i > Len(s) \/ (IsDigit(CharAt(s, i)) /\ AllDigits(s, i + 1))
IsDigitString(s) == Len(s) > 0 /\ AllDigits(s, 1)
RECURSIVE StripLeadingZeros(_)
StripLeadingZeros(s) ==
    IF Len(s) > 1 /\ CharAt(s, 1) = "0" THEN StripLeadingZeros(SubSeq(s, 2, Len(s))) ELSE s

\* Number(text) for integer literals: "" is 0, a decimal integer is its value,
\* any other text is NaN
ToNumber(text) ==
    IF text = "" THEN Num("0")
    ELSE IF IsDigitString(text) THEN Num(StripLeadingZeros(text))
    ELSE IF Len(text) > 1 /\ CharAt(text, 1) = "-" /\ IsDigitString(SubSeq(text, 2, Len(text)))
         THEN LET m == StripLeadingZeros(SubSeq(text, 2, Len(text)))
              IN  IF m = "0" THEN Num("0") ELSE Num("-" \o m)
    ELSE NaN

\* the object and array literals the model's inputs use
JsonObjectTexts == {"{}", "{\"a\":1}", "{\"a\":1,\"b\":2}", "[]", "[1]", "[1,2]"}

IsJsonNumber(text) ==
    \/ IsDigitString(text) /\ StripLeadingZeros(text) = text
    \/ /\ Len(text) > 1 /\ CharAt(text, 1) = "-"
       /\ IsDigitString(SubSeq(text, 2, Len(text)))
       /\ StripLeadingZeros(SubSeq(text, 2, Len(text))) = SubSeq(text, 2, Len(text))
IsJsonString(text) ==
    /\ Len(text) >= 2 /\ CharAt(text, 1) = "\"" /\ CharAt(text, Len(text)) = "\""
    /\ \A i \in 2..(Len(text) - 1) : CharAt(text, i) \notin {"\"", "\\"}

\* JSON.parse(text): ok is FALSE when it throws SyntaxError; a parsed object
\* is a new object, with identity newId
JSONParse(text, newId) ==
    CASE text = "null" -> [ok |-> TRUE, v |-> Null]
      [] text \in {"true", "false"} -> [ok |-> TRUE, v |-> Bool(text = "true")]
      [] IsJsonNumber(text) -> [ok |-> TRUE, v |-> ToNumber(text)]
      [] IsJsonString(text) -> [ok |-> TRUE, v |-> Str(SubSeq(text, 2, Len(text) - 1))]
      [] text \in JsonObjectTexts -> [ok |-> TRUE, v |-> Obj(text, newId)]
      [] OTHER -> [ok |-> FALSE, v |-> Undefined]

\* JSON.stringify(v) as a JavaScript value: undefined for undefined
JSONStringify(v) ==
    CASE v.k = "undefined" -> Undefined
      [] v.k = "null" -> Str("null")
      [] v.k = "number" -> Str(IF v = NaN THEN "null" ELSE v.s)
      [] v.k = "string" -> Str("\"" \o v.s \o "\"")
      [] v.k = "date" -> IF v.s = InvalidDate THEN Str("null") ELSE Str("\"" \o v.s \o "\"")
      [] OTHER -> Str(v.s)

(***************************************************************************)
(* Converters.  A call returns [ok, v]: ok is FALSE when the call throws.  *)
(***************************************************************************)
Return(v) == [ok |-> TRUE, v |-> v]
Throw == [ok |-> FALSE, v |-> Undefined]

IsoTexts == {"2020-01-01T00:00:00.000Z"}
\* new Date(text) for ISO texts and for texts no engine parses as a date
NewDate(text, newId) == Date(IF text \in IsoTexts THEN text ELSE InvalidDate, newId)

\* Number(value)
NumberOf(value) ==
    CASE value.k = "string" -> ToNumber(value.s)
      [] value.k = "number" -> value
      [] value.k = "boolean" -> Num(IF value.s = "true" THEN "1" ELSE "0")
      [] value.k = "null" -> Num("0")
      [] OTHER -> NaN

defaultConverter_toAttribute(value) == Return(value)
defaultConverter_fromAttribute(value) == Return(value)

\* (variant: the value's text, as the string converter writes it)
booleanConverter_toAttributeAsText(value) ==
    Return(IF value = Null THEN Null ELSE Str(JSString(value)))
booleanConverter_toAttribute(value) == Return(IF Truthy(value) THEN Str("") ELSE Null)
\* (variant: null for an absent attribute, as the other built-in converters)
booleanConverter_fromAttributeNullForNull(value) ==
    Return(IF value = Null THEN Null ELSE Bool(TRUE))
booleanConverter_fromAttribute(value) == Return(Bool(value # Null))

numberConverter_toAttribute(value) ==
    Return(IF value = Null THEN Null ELSE Str(JSString(value)))
numberConverter_fromAttribute(value) ==
    Return(IF value = Null THEN Null ELSE NumberOf(value))

stringConverter_toAttribute(value) ==
    Return(IF value = Null THEN Null ELSE Str(JSString(value)))
stringConverter_fromAttribute(value) ==
    Return(IF value = Null THEN Null ELSE Str(JSString(value)))

objectConverter_toAttribute(value) ==
    Return(IF IsNullish(value) THEN Null ELSE JSONStringify(value))
\* (variant: JSON.parse outside a try block)
objectConverter_fromAttributeUncaught(value, newId) ==
    IF IsNullish(value) THEN Return(Null)
    ELSE IF value.k \in {"object", "date"} THEN Return(value)
    ELSE LET parsed == JSONParse(JSString(value), newId)
         IN  IF parsed.ok THEN Return(parsed.v) ELSE Throw
objectConverter_fromAttribute(value, newId) ==
    IF IsNullish(value) THEN Return(Null)
    ELSE IF value.k \in {"object", "date"} THEN Return(value)
    ELSE LET parsed == JSONParse(JSString(value), newId)
         IN  IF parsed.ok THEN Return(parsed.v) ELSE Return(value)

\* the custom converter of the attribute-sync tests
customConverter_toAttribute(value) ==
    Return(IF Truthy(value) THEN Str(ToLowerCase(JSString(value))) ELSE Null)
customConverter_fromAttribute(value) ==
    Return(IF Truthy(value) THEN Str(ToUpperCase(JSString(value))) ELSE Null)

\* the dateConverter of the AttributeConverter documentation:
\* date?.toISOString() ?? null throws for a value without toISOString
\* (TypeError) and for an invalid Date (RangeError)
dateConverter_toAttribute(value) ==
    IF IsNullish(value) THEN Return(Null)
    ELSE IF value.k = "date" /\ value.s # InvalidDate THEN Return(Str(value.s))
    ELSE Throw
dateConverter_fromAttribute(value, newId) ==
    Return(IF Truthy(value) THEN NewDate(JSString(value), newId) ELSE Null)

\* converters: the type names that select a built-in converter
ConverterTypeNames == {"String", "Number", "Boolean", "Object", "Array"}

toAttribute(converter, value) ==
    CASE converter = "Boolean" -> booleanConverter_toAttribute(value)
      [] converter = "Number" -> numberConverter_toAttribute(value)
      [] converter = "String" -> stringConverter_toAttribute(value)
      [] converter \in {"Object", "Array"} -> objectConverter_toAttribute(value)
      [] converter = "custom" -> customConverter_toAttribute(value)
      [] converter = "date" -> dateConverter_toAttribute(value)
      [] OTHER -> defaultConverter_toAttribute(value)

fromAttribute(converter, value, newId) ==
    CASE converter = "Boolean" -> booleanConverter_fromAttribute(value)
      [] converter = "Number" -> numberConverter_fromAttribute(value)
      [] converter = "String" -> stringConverter_fromAttribute(value)
      [] converter \in {"Object", "Array"} -> objectConverter_fromAttribute(value, newId)
      [] converter = "custom" -> customConverter_fromAttribute(value)
      [] converter = "date" -> dateConverter_fromAttribute(value, newId)
      [] OTHER -> defaultConverter_fromAttribute(value)

\* does the call create an object (and use up the identity newId)?
CreatesObject(r) == r.ok /\ r.v.id # 0

(***************************************************************************)
(* PropertyOptions.  isNull marks a schema entry whose config is null or   *)
(* undefined; attribute is undefined, a boolean or a string; type is the   *)
(* name of the type constructor and converter the name of the explicit     *)
(* converter ("" when absent).                                             *)
(***************************************************************************)
Options(attribute, converter, default, reflect, type) ==
    [isNull |-> FALSE, attribute |-> attribute, converter |-> converter,
     default |-> default, reflect |-> reflect, type |-> type]
\* {}
EmptyOptions == Options(Undefined, "", Undefined, FALSE, "")
\* null
NullOptions == [EmptyOptions EXCEPT !.isNull = TRUE]

\* options.converter || (options.type && converters[options.type.name]) || defaultConverter
\* at its three places: attribute change, reflection, initial attribute
ResolveConverter(options) ==
    IF options.converter # "" THEN options.converter
    ELSE IF options.type \in ConverterTypeNames THEN options.type
    ELSE "default"
\* the variant that looks up the type first
ResolveTypeFirst(options) ==
    IF options.type \in ConverterTypeNames THEN options.type
    ELSE IF options.converter # "" THEN options.converter
    ELSE "default"
AttributeChangeConverter(options) == ResolveConverter(options)
ReflectConverter(userOptions) == ResolveConverter(userOptions)
InitialAttributeConverter(userOptions) == ResolveConverter(userOptions)

\* typeof options.attribute === 'string' ? options.attribute : camelAndPascalToKebab(propName)
\* (variant: the converted property name, whatever options.attribute is)
AttributeNameKebabOnly(propName, options) == camelAndPascalToKebab(propName)
AttributeName(propName, options) ==
    IF options.attribute.k = "string" THEN options.attribute.s
    ELSE camelAndPascalToKebab(propName)

(***************************************************************************)
(* State.                                                                  *)
(*   ctor        the component class: its name, which selects its static   *)
(*               properties, and whether it defines render()               *)
(*   constructed "no" before the constructor ran, "yes" after it returned, *)
(*               "failed" when it threw (the host then never calls back)   *)
(*   isConnected what the host reports for the element                     *)
(*   attributes  the element's attributes: name -> text, present ones only *)
(*   states      the cells of the attribute-backed accessors               *)
(*   protoStates the cell each attribute:false accessor refers to (the     *)
(*               variable propValue of its closure); the accessors are     *)
(*               defined on the prototype                                  *)
(*   vals        the value (.val) of every cell an attribute:false         *)
(*               accessor can refer to                                     *)
(*   frames      the pending requestAnimationFrame callbacks, oldest       *)
(*               first, each with the connection cycle that scheduled it   *)
(*   mounted     copies of the render output present in the render root    *)
(*   nextId      the identity the next created object gets                 *)
(*   registry    customElements: tag name -> name of the registered class  *)
(*   ownCreateRenderRoot  the instance has its own createRenderRoot member *)
(*               () => this, set by noShadowDOM()                          *)
(*   rootStyles  what _setupStyles put into the render root: the number of *)
(*               style elements marked vre:style and adoptedStyleSheets    *)
(*   rootsCreated  history: the calls of createRenderRoot (2: two or more) *)
(*   members     the own data properties that an assignment created on the *)
(*               instance: name -> value                                   *)
(* The other fields are those of the class.  History variables: cycle      *)
(* counts the non-spurious disconnects, calls counts connect callbacks,    *)
(* render and onMount invocations of the current connection cycle (2       *)
(* stands for two or more), op is the last operation and its arguments,    *)
(* peer is a second instance of the same class: its own fields; the        *)
(* accessors defined on the prototype, and so protoStates, are common to   *)
(* both instances.                                                         *)
(* log the events of that operation in order, raised whether it ended by   *)
(* throwing to its caller.                                                 *)
(***************************************************************************)
VARIABLES ctor, constructed, isConnected, attributes, renderRoot, mounted,
          _disposers, _hasSetupProperties, _isSetupComplete, _reflectingProperty,
          _attributeToPropertyMap, _propertyToAttributeMap, states, protoStates, vals,
          frames, nextId, cycle, calls, op, log, raised, peer, registry,
          ownCreateRenderRoot, rootStyles, rootsCreated, members

vars == <<ctor, constructed, isConnected, attributes, renderRoot, mounted,
          _disposers, _hasSetupProperties, _isSetupComplete, _reflectingProperty,
          _attributeToPropertyMap, _propertyToAttributeMap, states, protoStates, vals,
          frames, nextId, cycle, calls, op, log, raised, peer, registry,
          ownCreateRenderRoot, rootStyles, rootsCreated, members>>

\* null, for _reflectingProperty
NoProperty == ""

Event(e, n, v) == [e |-> e, n |-> n, v |-> v]
Operation(name, n, old, new) == [name |-> name, n |-> n, old |-> old, new |-> new]
Count(events, e) == Cardinality({i \in 1..Len(events) : events[i].e = e})
CountFor(events, e, n) ==
    Cardinality({i \in 1..Len(events) : events[i].e = e /\ events[i].n = n})
Bump(n) == IF n < 2 THEN n + 1 ELSE 2

(***************************************************************************)
(* The component classes explored, each with the attribute texts and       *)
(* property values its inputs are drawn from.                              *)
(***************************************************************************)
Property(name, options) == [name |-> name, options |-> options]
UserObject == Obj("{\"a\":1}", 1)
UserDate == Date("2020-01-01T00:00:00.000Z", 1)
\* cells user code made with van.state: one it assigns to properties, one
\* it declared as the default of a property
UserState == State("user", 3)
DefaultState == State("default", 4)
InitialVals == (UserState :> Str("dynamic")) @@ (DefaultState :> Str("d"))

Schemas ==
    [ counter |->
        << Property("count", Options(Undefined, "", Num("0"), TRUE, "Number")) >>,
      labeled |->
        << Property("myLabel", Options(Undefined, "", Str("a"), FALSE, "String")),
           Property("isActive", Options(Undefined, "", Undefined, TRUE, "Boolean")) >>,
      data |->
        << Property("data", Options(Undefined, "", Undefined, TRUE, "Object")) >>,
      custom |->
        << Property("myProp", Options(Undefined, "custom", Str("test"), TRUE, "")),
           Property("internal", Options(Bool(FALSE), "", Null, FALSE, "")) >>,
      shared |->
        << Property("first", Options(Undefined, "", Num("0"), TRUE, "Number")),
           Property("second", Options(Str("first"), "", Undefined, TRUE, "Boolean")) >>,
      plain |->
        << Property("size", NullOptions),
           Property("value", Options(Bool(TRUE), "", Undefined, TRUE, "")),
           Property("caption", Options(Undefined, "", Undefined, TRUE, "String")) >>,
      dated |->
        << Property("when", Options(Undefined, "date", Undefined, TRUE, "Object")) >>,
      celled |->
        << Property("zoom", Options(Bool(FALSE), "", DefaultState, TRUE, "")),
           Property("world", Options(Bool(FALSE), "", Str("w"), FALSE, "")) >> ]

InputTexts ==
    [ counter |-> {"1", "abc"},
      labeled |-> {"", "false"},
      data |-> {"{\"a\":1}", "not json"},
      custom |-> {"hello", "Ab"},
      shared |-> {"1", "abc"},
      plain |-> {"1"},
      dated |-> {"abc", "2020-01-01T00:00:00.000Z"},
      celled |-> {"1"} ]

InputValues ==
    [ counter |-> {Num("1"), NaN, Null, Undefined},
      labeled |-> {Bool(TRUE), Bool(FALSE), Str("a")},
      data |-> {UserObject, Null},
      custom |-> {Str("Ab"), Null},
      shared |-> {Num("1"), Str("abc")},
      plain |-> {Undefined, Num("1"), Str("1")},
      dated |-> {UserDate, Null, Str("x")},
      celled |-> {Str("x")} ]

ClassNames == DOMAIN Schemas

\* the static properties of the element's class
Properties == Schemas[ctor.name]
PropertyNames == {Properties[i].name : i \in 1..Len(Properties)}
\* ctor.properties[propName]
OptionsOf(propName) ==
    Properties[CHOOSE i \in 1..Len(Properties) : Properties[i].name = propName].options
\* properties[property] || {}
UserOptionsOf(property) ==
    IF OptionsOf(property).isNull THEN EmptyOptions ELSE OptionsOf(property)

\* static get observedAttributes(), for a class with the given properties
RECURSIVE ObservedFrom(_, _)
ObservedFrom(properties, i) ==
    IF i > Len(properties) THEN <<>>
    ELSE LET propName == properties[i].name
             options == properties[i].options
         IN  IF options.isNull \/ options.attribute = Bool(FALSE)
             THEN ObservedFrom(properties, i + 1)
             ELSE <<AttributeName(propName, options)>> \o ObservedFrom(properties, i + 1)
\* AttributeName of every schema entry of every class, computed once
AttributeNameOfClass ==
    [name \in ClassNames |->
        [i \in 1..Len(Schemas[name]) |->
            AttributeName(Schemas[name][i].name, Schemas[name][i].options)]]
ObservedOfClass == [name \in ClassNames |-> ObservedFrom(Schemas[name], 1)]
observedAttributes == ObservedOfClass[ctor.name]
IsObserved(name) == \E i \in 1..Len(observedAttributes) : observedAttributes[i] = name

(***************************************************************************)
(* The property / attribute engine.  Its operations run nested in one      *)
(* another (a setter writes an attribute, the host answers with an         *)
(* attribute-change notification, which calls a setter), so each is an     *)
(* operator from the element's fields to the element's fields.  el.custom  *)
(* tells whether the host dispatches callbacks: not while the constructor  *)
(* of an element being upgraded runs.                                      *)
(***************************************************************************)
Element(custom) ==
    [states |-> states, protoStates |-> protoStates, vals |-> vals,
     attributes |-> attributes,
     reflecting |-> _reflectingProperty, a2p |-> _attributeToPropertyMap,
     p2a |-> _propertyToAttributeMap, hasSetup |-> _hasSetupProperties,
     nextId |-> nextId, log |-> <<>>, raised |-> FALSE, custom |-> custom,
     owner |-> 1]

Logged(el, e, n, v) == [el EXCEPT !.log = Append(@, Event(e, n, v))]
getAttribute(el, name) ==
    IF name \in DOMAIN el.attributes THEN Str(el.attributes[name]) ELSE Null
\* an exception thrown by a callback the host invoked is reported, not rethrown
Reported(el) ==
    IF el.raised THEN [Logged(el, "reported", "", Undefined) EXCEPT !.raised = FALSE] ELSE el
\* the cell's val setter: propertyState.val = newValue
WriteCell(el, property, newValue) ==
    [Logged(el, "cell", property, newValue) EXCEPT !.states[property] = newValue]

RECURSIVE Setter(_, _, _)
RECURSIVE attributeChangedCallback(_, _, _, _)
RECURSIVE setAttribute(_, _, _)
RECURSIVE removeAttribute(_, _)

\* Element.setAttribute(name, value) on a custom element
setAttribute(el, name, value) ==
    LET oldValue == getAttribute(el, name)
        text == JSString(value)
        el1 == [Logged(el, "setAttribute", name, Str(text))
                  EXCEPT !.attributes = (name :> text) @@ @]
    IN  IF el.custom /\ IsObserved(name)
        THEN Reported(attributeChangedCallback(el1, name, oldValue, Str(text)))
        ELSE el1

\* Element.removeAttribute(name) on a custom element
removeAttribute(el, name) ==
    LET oldValue == getAttribute(el, name)
        el1 == [Logged(el, "removeAttribute", name, Null)
                  EXCEPT !.attributes = [n \in (DOMAIN @) \ {name} |-> @[n]]]
    IN  IF oldValue # Null /\ el.custom /\ IsObserved(name)
        THEN Reported(attributeChangedCallback(el1, name, oldValue, Null))
        ELSE el1

\* if (propertyState.rawVal === newValue) return
IsUnchanged(rawVal, newValue) == StrictEquals(rawVal, newValue)

\* if (oldValue === newValue) return, of strings or null; the variant before
\* it never returns early
IsSameValueNever(oldValue, newValue) == FALSE
IsSameValue(oldValue, newValue) == oldValue = newValue

\* const options = ctor.properties[propName]; if (!options) return
\* (variant: the test is left out)
HasNoOptionsNever(propName) == FALSE
HasNoOptions(propName) == OptionsOf(propName).isNull

\* the guard of attributeChangedCallback: this._reflectingProperty === propName
IsReflecting(reflecting, propName) == reflecting = propName

\* the set accessor of an attribute-backed property
Setter(el, property, newValue) ==
    LET userOptions == UserOptionsOf(property)
        el1 == Logged(el, "setter", property, newValue)
    IN  IF IsUnchanged(el.states[property], newValue) THEN el1
        ELSE LET el2 == WriteCell(el1, property, newValue)
                 attrName == IF property \in DOMAIN el2.p2a THEN el2.p2a[property] ELSE ""
             IN  IF ~userOptions.reflect \/ attrName = "" THEN el2
                 ELSE LET el3 == [el2 EXCEPT !.reflecting = property]
                          attrValue == toAttribute(ReflectConverter(userOptions), newValue)
                      IN  IF ~attrValue.ok THEN [el3 EXCEPT !.raised = TRUE]
                          ELSE [(IF attrValue.v = Null
                                 THEN removeAttribute(el3, attrName)
                                 ELSE setAttribute(el3, attrName, attrValue.v))
                                  EXCEPT !.reflecting = NoProperty]

attributeChangedCallback(el, name, oldValue, newValue) ==
    IF IsSameValue(oldValue, newValue) THEN el
    ELSE IF name \notin DOMAIN el.a2p THEN el
    ELSE LET propName == el.a2p[name]
         IN  IF IsReflecting(el.reflecting, propName) THEN el
             ELSE IF HasNoOptions(propName) THEN el
             ELSE LET converter == AttributeChangeConverter(OptionsOf(propName))
                      value == fromAttribute(converter, newValue, el.nextId)
                  IN  IF ~value.ok THEN [el EXCEPT !.raised = TRUE]
                      ELSE Setter([el EXCEPT !.nextId =
                                        IF value.v.id = el.nextId THEN @ + 1 ELSE @],
                                  propName, value.v)

\* this.hasAttribute(attrName); the variant before it finds no attribute
hasAttributeNever(el, name) == FALSE
hasAttribute(el, name) == name \in DOMAIN el.attributes

\* the set accessor of an attribute:false property (plain values)
\* (variant: the accessor reflects as the attribute-backed one does)
PrototypeSetterReflecting(el, property, newValue) ==
    LET el1 == [Logged(el, "setter", property, newValue)
                  EXCEPT !.vals[el.protoStates[property]] = newValue]
    IN  IF UserOptionsOf(property).reflect
        THEN setAttribute(el1, camelAndPascalToKebab(property), newValue)
        ELSE el1
PrototypeSetter(el, property, newValue) ==
    IF isValueState(newValue)
    THEN [Logged(el, "setter", property, newValue) EXCEPT !.protoStates[property] = newValue]
    ELSE [Logged(el, "setter", property, newValue)
            EXCEPT !.vals[el.protoStates[property]] = newValue]

\* the loop of _setupProperties, from the i-th schema entry on
RECURSIVE SetupFrom(_, _)
SetupFrom(el, i) ==
    IF i > Len(Properties) THEN [el EXCEPT !.hasSetup = TRUE]
    ELSE LET property == Properties[i].name
             userOptions == UserOptionsOf(property)
             defaultValue == userOptions.default
         IN  IF userOptions.attribute = Bool(FALSE)
             THEN LET propValue == IF isValueState(defaultValue) THEN defaultValue
                                   ELSE State(property, el.owner)
                  IN  SetupFrom([Logged(el, "defineProperty", property, defaultValue)
                                   EXCEPT !.protoStates = (property :> propValue) @@ @,
                                          !.vals = IF isValueState(defaultValue) THEN @
                                                   ELSE (propValue :> defaultValue) @@ @],
                                i + 1)
             ELSE LET attrName == AttributeNameOfClass[ctor.name][i]
                      el1 == [Logged(el, "defineProperty", property, defaultValue)
                                EXCEPT !.a2p = (attrName :> property) @@ @,
                                       !.p2a = (property :> attrName) @@ @,
                                       !.states = (property :> defaultValue) @@ @]
                  IN  IF attrName = "" \/ ~hasAttribute(el1, attrName)
                      THEN SetupFrom(el1, i + 1)
                      ELSE LET converter == InitialAttributeConverter(userOptions)
                               value == fromAttribute(converter, getAttribute(el1, attrName),
                                                      el1.nextId)
                               el2 == Setter([el1 EXCEPT !.nextId =
                                                IF value.v.id = el1.nextId THEN @ + 1 ELSE @],
                                             property, value.v)
                           IN  IF ~value.ok THEN [el1 EXCEPT !.raised = TRUE]
                               ELSE IF el2.raised THEN el2
                               ELSE SetupFrom(el2, i + 1)

\* _setupProperties(): if (this._hasSetupProperties) return; then the loop
\* (variant: without the early return)
_setupPropertiesAgain(el) == SetupFrom(el, 1)
_setupProperties(el) == IF el.hasSetup THEN el ELSE SetupFrom(el, 1)

\* the fields of the element after an operation that ended with result
Commit(result) ==
    \E el \in {result} :
        /\ states' = el.states
        /\ protoStates' = el.protoStates
        /\ vals' = el.vals
        /\ attributes' = el.attributes
        /\ _reflectingProperty' = el.reflecting
        /\ _attributeToPropertyMap' = el.a2p
        /\ _propertyToAttributeMap' = el.p2a
        /\ _hasSetupProperties' = el.hasSetup
        /\ nextId' = el.nextId
        /\ log' = el.log
        /\ raised' = el.raised

EngineUnchanged ==
    UNCHANGED <<states, protoStates, vals, attributes, _reflectingProperty,
                _attributeToPropertyMap, _propertyToAttributeMap,
                _hasSetupProperties, nextId, peer, registry, ownCreateRenderRoot,
                members>>
LifecycleUnchanged ==
    UNCHANGED <<ctor, constructed, isConnected, renderRoot, mounted, _disposers,
                _isSetupComplete, frames, cycle, calls, peer, registry,
                ownCreateRenderRoot, rootStyles, rootsCreated, members>>

(***************************************************************************)
(* Disposers.  A disposer is named; the user's disposers are d1, d2, ...   *)
(* and those with an odd number throw when invoked.  The default rxScope   *)
(* runs its function at once and returns a new function that does nothing: *)
(* ctorScope, connectScope.                                                *)
(***************************************************************************)
UserDisposer(i) == "d" \o CharAt(Digits, i + 1)
UserDisposers == {UserDisposer(i) : i \in 1..MaxDisposers}
DisposerThrows(d) == \E i \in 1..MaxDisposers : d = UserDisposer(i) /\ i % 2 = 1
NotAFunction == "notAFunction"

\* Set.prototype.add on the insertion-ordered set
SetAdd(set, x) == IF \E i \in 1..Len(set) : set[i] = x THEN set ELSE Append(set, x)

\* (variant: whatever it is given goes into the set)
registerDisposerAny(disposers, disposer) == SetAdd(disposers, disposer)
registerDisposer(disposers, disposer) ==
    IF disposer # NotAFunction THEN SetAdd(disposers, disposer) ELSE disposers

\* this._disposers.forEach(d => { try { d() } catch { ... } }): the events of
\* the drain; ok tells that no exception left the loop
RECURSIVE DisposeFrom(_, _)
DisposeFrom(disposers, i) ==
    IF i > Len(disposers) THEN <<>>
    ELSE <<Event("disposer", disposers[i], Bool(DisposerThrows(disposers[i])))>>
         \o DisposeFrom(disposers, i + 1)
\* the drain without try / catch: the first throwing disposer ends it
RECURSIVE DisposeUncaughtFrom(_, _)
DisposeUncaughtFrom(disposers, i) ==
    IF i > Len(disposers) THEN <<>>
    ELSE <<Event("disposer", disposers[i], Bool(DisposerThrows(disposers[i])))>>
         \o (IF DisposerThrows(disposers[i]) THEN <<>>
             ELSE DisposeUncaughtFrom(disposers, i + 1))
DisposeAllUncaught(disposers) ==
    [log |-> DisposeUncaughtFrom(disposers, 1),
     ok |-> \A i \in 1..Len(disposers) : ~DisposerThrows(disposers[i])]
DisposeAll(disposers) == [log |-> DisposeFrom(disposers, 1), ok |-> TRUE]

\* if (this.isConnected) return; the variant before it never returns early
IsSpuriousNever(connected) == FALSE
IsSpurious(connected) == connected

\* this.isConnected && this._isSetupComplete && this.onMount?.(); the variant
\* before it leaves out the isConnected test
MountDueIgnoringConnection(connected, setupComplete) == setupComplete
MountDue(connected, setupComplete) == connected /\ setupComplete

\* if (!this._isSetupComplete); the variant before it sets up in the first
\* connection cycle only
SetupDueFirstCycleOnly(setupComplete) == ~setupComplete /\ cycle = 0
SetupDue(setupComplete) == ~setupComplete

(***************************************************************************)
(* Initial states: a class, an element of it not yet constructed.          *)
(***************************************************************************)
EmptyMap == [n \in {} |-> ""]
NoCalls == [connect |-> 0, render |-> 0, mount |-> 0]
NoOperation == Operation("", "", Undefined, Undefined)
\* a class written by hand: no styles; a class made by the functional define:
\* setup returns a render function (render) or nothing, with the styles of
\* its options: "none", "string" (a CSS text) or "sheet" (a CSSStyleSheet)
Class(name, render) == [name |-> name, render |-> render, styles |-> "none", setup |-> FALSE]
FunctionalClass(name, render, styles) ==
    [name |-> name, render |-> render, styles |-> styles, setup |-> TRUE]
\* the render root holds no style element and has adopted no stylesheet
NoStyles == [styleEls |-> 0, adoptedStyleSheets |-> <<>>]

\* the fields of a second instance before its constructor ran
NoPeer ==
    [constructed |-> "no", states |-> EmptyMap, attributes |-> EmptyMap,
     reflecting |-> NoProperty, a2p |-> EmptyMap, p2a |-> EmptyMap, hasSetup |-> FALSE]

InitElement ==
    /\ constructed = "no"
    /\ renderRoot = "null"
    /\ mounted = 0
    /\ _disposers = <<>>
    /\ _hasSetupProperties = FALSE
    /\ _isSetupComplete = FALSE
    /\ _reflectingProperty = NoProperty
    /\ _attributeToPropertyMap = EmptyMap
    /\ _propertyToAttributeMap = EmptyMap
    /\ states = EmptyMap
    /\ protoStates = EmptyMap
    /\ vals = InitialVals
    /\ frames = <<>>
    /\ nextId = UserObject.id + 1
    /\ peer = NoPeer
    /\ registry = EmptyMap
    /\ ownCreateRenderRoot = FALSE
    /\ rootStyles = NoStyles
    /\ rootsCreated = 0
    /\ members = EmptyMap
    /\ cycle = 0
    /\ calls = NoCalls
    /\ op = NoOperation
    /\ log = <<>>
    /\ raised = FALSE

\* the classes whose elements go through the lifecycle: the callbacks read
\* nothing of the schema
LifecycleClassNames == {"counter", "custom", "shared"}

\* a new element (document.createElement, new): no attributes, not connected
Init ==
    /\ \E name \in LifecycleClassNames, render \in BOOLEAN : ctor = Class(name, render)
    /\ isConnected = FALSE
    /\ attributes = EmptyMap
    /\ InitElement

\* the names of the attributes the inputs touch: those of the schema's
\* attribute-backed entries and one the schema does not know
UnknownAttribute == "title"
SchemaAttributes(properties) ==
    {AttributeName(properties[i].name, properties[i].options) :
        i \in {j \in 1..Len(properties) : properties[j].options.attribute # Bool(FALSE)}}
\* the kebab-case names of the attribute:false entries; the inputs of the
\* class `celled` use them as attribute names
UnbackedAttributes(name) ==
    IF name # "celled" THEN {}
    ELSE {camelAndPascalToKebab(Schemas[name][i].name) :
            i \in {j \in 1..Len(Schemas[name]) :
                      Schemas[name][j].options.attribute = Bool(FALSE)}}
CarriedAttributesOfClass ==
    [name \in ClassNames |-> SchemaAttributes(Schemas[name]) \cup UnbackedAttributes(name)]
InputAttributesOfClass ==
    [name \in ClassNames |-> CarriedAttributesOfClass[name] \cup {UnknownAttribute}]
InputAttributes == InputAttributesOfClass[ctor.name]

\* an element the parser made before its class was defined: it may carry
\* attributes and be in the document when it is upgraded
InitSync ==
    /\ \E name \in ClassNames :
         /\ ctor = Class(name, FALSE)
         /\ \E present \in SUBSET CarriedAttributesOfClass[name] :
              attributes \in [present -> InputTexts[name]]
    /\ isConnected \in BOOLEAN
    /\ InitElement

(***************************************************************************)
(* Lifecycle.                                                              *)
(***************************************************************************)
\* the attributeChangedCallback reactions the host queues when it upgrades an
\* element, one per observed attribute the element carried, run right after
\* the constructor
RECURSIVE UpgradeReactionsFrom(_, _, _)
UpgradeReactionsFrom(el, carried, i) ==
    IF i > Len(observedAttributes) THEN el
    ELSE LET name == observedAttributes[i]
         IN  IF name \in DOMAIN carried /\ \A j \in 1..(i - 1) : observedAttributes[j] # name
             THEN UpgradeReactionsFrom(
                      Reported(attributeChangedCallback(el, name, Null, Str(carried[name]))),
                      carried, i + 1)
             ELSE UpgradeReactionsFrom(el, carried, i + 1)

\* the constructor of FunctionalElement after super(): it registers the
\* scope in which it calls setup(props, context) and stores what setup returns
\* (variant: no call of setup)
SetupSkipped(el, disposers) == [el |-> el, disposers |-> disposers]
SetupCalled(el, disposers) ==
    [el |-> Logged(el, "setup", "", Bool(ctor.render)),
     disposers |-> registerDisposer(disposers, "setupScope")]

\* constructor: this.registerDisposer(rxScope(() => this._setupProperties())),
\* then, for a class made by the functional define, the call of setup
Construct ==
    /\ constructed = "no"
    /\ \E el \in {_setupProperties(Element(FALSE))} :
           IF el.raised
           THEN /\ constructed' = "failed"
                /\ Commit(el)
                /\ UNCHANGED _disposers
           ELSE \E made \in {IF ctor.setup
                              THEN SetupCalled(el, registerDisposer(_disposers, "ctorScope"))
                              ELSE SetupSkipped(el, registerDisposer(_disposers, "ctorScope"))} :
                /\ constructed' = "yes"
                /\ _disposers' = made.disposers
                /\ Commit(UpgradeReactionsFrom([made.el EXCEPT !.custom = TRUE], attributes, 1))
    /\ op' = Operation("constructor", "", Undefined, Undefined)
    /\ UNCHANGED <<ctor, isConnected, renderRoot, mounted, _isSetupComplete, frames,
                   cycle, calls, peer, registry, ownCreateRenderRoot, rootStyles,
                   rootsCreated, members>>

\* createRenderRoot(): this.shadowRoot ?? this.attachShadow(...), or the
\* instance's own member () => this
createRenderRoot == IF ownCreateRenderRoot THEN "host" ELSE "shadow"

\* this.renderRoot ??= this.createRenderRoot()
\* (variant: the render root is made at every connect)
EnsureRenderRootAlways(root) == [root |-> createRenderRoot, created |-> 1]
EnsureRenderRoot(root) ==
    IF root = "null" THEN [root |-> createRenderRoot, created |-> 1]
    ELSE [root |-> root, created |-> 0]

\* _setupStyles(): the styles of the render root after it
\* (variant: no test whether the styles are there already)
_setupStylesUnchecked(root, styles, applied) ==
    IF root = "null" \/ styles = "none" THEN applied
    ELSE IF root = "shadow" /\ styles = "sheet"
    THEN [applied EXCEPT !.adoptedStyleSheets = IF Len(@) < 2 THEN Append(@, "sheet") ELSE @]
    ELSE IF styles = "string" THEN [applied EXCEPT !.styleEls = Bump(@)]
    ELSE applied
_setupStyles(root, styles, applied) ==
    IF root = "null" THEN applied
    ELSE IF styles = "none" THEN applied
    ELSE IF root = "shadow" /\ styles = "sheet"
    THEN IF \E i \in 1..Len(applied.adoptedStyleSheets) : applied.adoptedStyleSheets[i] = "sheet"
         THEN applied
         ELSE [applied EXCEPT !.adoptedStyleSheets = Append(@, "sheet")]
    ELSE IF applied.styleEls = 0 /\ styles = "string"
    THEN [applied EXCEPT !.styleEls = @ + 1]
    ELSE applied

\* connectedCallback, called while the host reports isConnected = connected
ConnectedCallback(connected) ==
    /\ constructed = "yes"
    /\ isConnected' = connected
    /\ renderRoot' = EnsureRenderRoot(renderRoot).root
    /\ rootsCreated' = IF EnsureRenderRoot(renderRoot).created = 1 THEN Bump(rootsCreated)
                       ELSE rootsCreated
    /\ rootStyles' = _setupStyles(renderRoot', ctor.styles, rootStyles)
    /\ op' = Operation("connectedCallback", "", Undefined, Undefined)
    /\ IF SetupDue(_isSetupComplete)
       THEN \E renderThrows \in IF ctor.render THEN BOOLEAN ELSE {FALSE} :
              IF renderThrows
              THEN \* render() throws: the exception leaves rxScope and the callback
                   /\ log' = <<Event("render", "", Undefined)>>
                   /\ raised' = TRUE
                   /\ calls' = [calls EXCEPT !.connect = Bump(@), !.render = Bump(@)]
                   /\ UNCHANGED <<mounted, _isSetupComplete, frames, _disposers>>
              ELSE /\ Len(frames) < MaxFrames
                   /\ log' = (IF ctor.render THEN <<Event("render", "", Undefined)>> ELSE <<>>)
                             \o <<Event("requestAnimationFrame", "", Undefined)>>
                   /\ raised' = FALSE
                   /\ mounted' = IF ctor.render THEN mounted + 1 ELSE mounted
                   /\ _isSetupComplete' = TRUE
                   /\ frames' = Append(frames, cycle)
                   /\ _disposers' = registerDisposer(_disposers, "connectScope")
                   /\ calls' = [calls EXCEPT !.connect = Bump(@),
                                             !.render = IF ctor.render THEN Bump(@) ELSE @]
       ELSE /\ log' = <<>>
            /\ raised' = FALSE
            /\ calls' = [calls EXCEPT !.connect = Bump(@)]
            /\ UNCHANGED <<mounted, _isSetupComplete, frames, _disposers>>
    /\ UNCHANGED <<ctor, constructed, cycle>>
    /\ EngineUnchanged

\* the steps of disconnectedCallback after the early return, as events: the
\* drain, this._disposers.clear(), this._isSetupComplete = false, then
\* try { this.onCleanup?.() } catch { console.error }
\* (variant: the cleanup hook is called before the drain)
DisconnectStepsCleanupFirst(disposers, cleanupThrows) ==
    <<Event("onCleanup", "", Bool(cleanupThrows))>>
    \o DisposeAll(disposers).log
    \o <<Event("_disposers.clear", "", Undefined), Event("_isSetupComplete", "", Bool(FALSE))>>
DisconnectSteps(disposers, cleanupThrows) ==
    DisposeAll(disposers).log
    \o <<Event("_disposers.clear", "", Undefined), Event("_isSetupComplete", "", Bool(FALSE)),
         Event("onCleanup", "", Bool(cleanupThrows))>>

\* disconnectedCallback, called while the host reports isConnected = connected
DisconnectedCallback(connected) ==
    /\ constructed = "yes"
    /\ isConnected' = connected
    /\ op' = Operation("disconnectedCallback", "", Undefined, Undefined)
    /\ IF IsSpurious(connected)
       THEN /\ log' = <<>>
            /\ raised' = FALSE
            /\ UNCHANGED <<_disposers, _isSetupComplete, cycle, calls>>
       ELSE /\ cycle < MaxCycles
            /\ LET drained == DisposeAll(_disposers)
               IN  IF ~drained.ok
                   THEN /\ log' = drained.log
                        /\ raised' = TRUE
                        /\ UNCHANGED <<_disposers, _isSetupComplete, cycle, calls>>
                   ELSE /\ \E cleanupThrows \in BOOLEAN :
                             log' = DisconnectSteps(_disposers, cleanupThrows)
                        /\ raised' = FALSE
                        /\ _disposers' = <<>>
                        /\ _isSetupComplete' = FALSE
                        /\ cycle' = cycle + 1
                        /\ calls' = NoCalls
    /\ UNCHANGED <<ctor, constructed, renderRoot, mounted, frames, rootStyles, rootsCreated>>
    /\ EngineUnchanged

\* user code calls element.registerDisposer(disposer)
RegisterDisposer(disposer) ==
    /\ constructed = "yes"
    /\ _disposers' = registerDisposer(_disposers, disposer)
    /\ op' = Operation("registerDisposer", disposer, Undefined, Str(disposer))
    /\ log' = <<>>
    /\ raised' = FALSE
    /\ UNCHANGED <<ctor, constructed, isConnected, renderRoot, mounted,
                   _isSetupComplete, frames, cycle, calls, rootStyles, rootsCreated>>
    /\ EngineUnchanged

\* the oldest pending requestAnimationFrame callback runs; op.n is the
\* connection cycle that scheduled it
FrameFires ==
    /\ Len(frames) > 0
    /\ frames' = Tail(frames)
    /\ op' = Operation("frame", CharAt(Digits, Head(frames) + 1), Undefined, Undefined)
    /\ IF MountDue(isConnected, _isSetupComplete)
       THEN /\ \E mountThrows \in BOOLEAN :
                 /\ log' = <<Event("onMount", "", Bool(mountThrows))>>
                 /\ raised' = mountThrows
            /\ calls' = [calls EXCEPT !.mount = Bump(@)]
       ELSE /\ log' = <<>>
            /\ raised' = FALSE
            /\ UNCHANGED calls
    /\ UNCHANGED <<ctor, constructed, isConnected, renderRoot, mounted, _disposers,
                   _isSetupComplete, cycle, rootStyles, rootsCreated>>
    /\ EngineUnchanged

\* user code calls element._setupStyles()
SetupStyles ==
    /\ constructed = "yes"
    /\ rootStyles' = _setupStyles(renderRoot, ctor.styles, rootStyles)
    /\ op' = Operation("_setupStyles", "", Undefined, Undefined)
    /\ log' = <<>>
    /\ raised' = FALSE
    /\ UNCHANGED <<ctor, constructed, isConnected, renderRoot, mounted, _disposers,
                   _isSetupComplete, frames, cycle, calls, rootsCreated>>
    /\ EngineUnchanged

\* context.noShadowDOM(), called by setup or by code that kept the context
noShadowDOM(root, own) == IF root = "null" THEN TRUE ELSE own

NoShadowDOM ==
    /\ constructed = "yes"
    /\ ctor.setup
    /\ ownCreateRenderRoot' = noShadowDOM(renderRoot, ownCreateRenderRoot)
    /\ op' = Operation("noShadowDOM", "", Undefined, Undefined)
    /\ log' = IF renderRoot = "null" THEN <<>> ELSE <<Event("console.warn", "", Undefined)>>
    /\ raised' = FALSE
    /\ UNCHANGED <<states, protoStates, vals, attributes, _reflectingProperty,
                   _attributeToPropertyMap, _propertyToAttributeMap,
                   _hasSetupProperties, nextId, peer, registry, members>>
    /\ UNCHANGED <<ctor, constructed, isConnected, renderRoot, mounted, _disposers,
                   _isSetupComplete, frames, cycle, calls, rootStyles, rootsCreated>>

Next ==
    \/ Construct
    \/ \E connected \in BOOLEAN : ConnectedCallback(connected)
    \/ \E connected \in BOOLEAN : DisconnectedCallback(connected)
    \/ \E disposer \in UserDisposers \cup {NotAFunction} : RegisterDisposer(disposer)
    \/ FrameFires

Spec == Init /\ [][Next]_vars

\* an element of a class made by the functional define, through its life
NextRoot ==
    \/ Construct
    \/ \E connected \in BOOLEAN : ConnectedCallback(connected)
    \/ \E connected \in BOOLEAN : DisconnectedCallback(connected)
    \/ FrameFires
    \/ SetupStyles
    \/ NoShadowDOM

InitRoot ==
    /\ \E render \in BOOLEAN, styles \in {"none", "string", "sheet"} :
          ctor = FunctionalClass("counter", render, styles)
    /\ isConnected = FALSE
    /\ attributes = EmptyMap
    /\ InitElement

SpecRoot == InitRoot /\ [][NextRoot]_vars

(***************************************************************************)
(* Property writes and attribute changes on a constructed element.         *)
(***************************************************************************)
MayCreate == nextId < UserObject.id + 1 + MaxCreated

\* user code assigns element[property] = value (also setProperty,
\* setProperties, props.set); op.old is the raw value of the cell before
SetProperty(property, value) ==
    /\ constructed = "yes"
    /\ MayCreate
    /\ IF property \in DOMAIN states
       THEN /\ op' = Operation("set", property, states[property], value)
            /\ Commit(Setter(Element(TRUE), property, value))
       ELSE /\ op' = Operation("set", property, vals[protoStates[property]], value)
            /\ Commit(PrototypeSetter(Element(TRUE), property, value))
    /\ LifecycleUnchanged

\* markup, the host or user code sets an attribute of the element
HostSetAttribute(name, text) ==
    /\ constructed = "yes"
    /\ MayCreate
    /\ op' = Operation("setAttribute", name, getAttribute(Element(TRUE), name), Str(text))
    /\ Commit(setAttribute(Element(TRUE), name, Str(text)))
    /\ LifecycleUnchanged

\* ... or removes one
HostRemoveAttribute(name) ==
    /\ constructed = "yes"
    /\ MayCreate
    /\ op' = Operation("removeAttribute", name, getAttribute(Element(TRUE), name), Null)
    /\ Commit(removeAttribute(Element(TRUE), name))
    /\ LifecycleUnchanged

\* attributeChangedCallback(name, oldValue, newValue) called as a method (by
\* the tests, by a host that queued the notification earlier)
NotifyAttributeChanged(name, oldValue, newValue) ==
    /\ constructed = "yes"
    /\ MayCreate
    /\ op' = Operation("attributeChangedCallback", name, oldValue, newValue)
    /\ Commit(attributeChangedCallback(Element(TRUE), name, oldValue, newValue))
    /\ LifecycleUnchanged

\* the value user code reads from the property's cell, to write it back
CurrentValue(property) ==
    IF property \in DOMAIN states THEN {states[property]}
    ELSE IF property \in DOMAIN protoStates THEN {vals[protoStates[property]]}
    ELSE {}
InputStrings == {Null} \cup {Str(text) : text \in InputTexts[ctor.name]}

NextSync ==
    \/ Construct
    \/ \E property \in PropertyNames :
         \E value \in InputValues[ctor.name] \cup CurrentValue(property) :
            SetProperty(property, value)
    \/ \E name \in InputAttributes, text \in InputTexts[ctor.name] :
         HostSetAttribute(name, text)
    \/ \E name \in InputAttributes : HostRemoveAttribute(name)
    \/ \E name \in InputAttributes, oldValue \in InputStrings, newValue \in InputStrings :
         NotifyAttributeChanged(name, oldValue, newValue)

SpecSync == InitSync /\ [][NextSync]_vars

(***************************************************************************)
(* Two instances of one class, made with new: the element and its peer.    *)
(***************************************************************************)
PeerElement(custom) ==
    [states |-> peer.states, protoStates |-> protoStates, vals |-> vals,
     attributes |-> peer.attributes,
     reflecting |-> peer.reflecting, a2p |-> peer.a2p, p2a |-> peer.p2a,
     hasSetup |-> peer.hasSetup, nextId |-> nextId, log |-> <<>>, raised |-> FALSE,
     custom |-> custom, owner |-> 2]

PeerCommit(result) ==
    /\ \E el \in {result} :
          /\ peer' = [constructed |-> IF el.hasSetup THEN "yes" ELSE "failed",
                      states |-> el.states, attributes |-> el.attributes,
                      reflecting |-> el.reflecting, a2p |-> el.a2p, p2a |-> el.p2a,
                      hasSetup |-> el.hasSetup]
          /\ protoStates' = el.protoStates
          /\ vals' = el.vals
          /\ nextId' = el.nextId
          /\ log' = el.log
          /\ raised' = el.raised
    /\ UNCHANGED <<ctor, constructed, isConnected, attributes, renderRoot, mounted,
                   _disposers, _hasSetupProperties, _isSetupComplete,
                   _reflectingProperty, _attributeToPropertyMap,
                   _propertyToAttributeMap, states, frames, cycle, calls, registry,
                   ownCreateRenderRoot, rootStyles, rootsCreated, members>>

\* new of the class a second time: the constructor of the peer
ConstructPeer ==
    /\ peer.constructed = "no"
    /\ op' = Operation("peerConstructor", "", Undefined, Undefined)
    /\ PeerCommit(_setupProperties(PeerElement(FALSE)))

\* user code assigns peer[property] = value
SetPeerProperty(property, value) ==
    /\ peer.constructed = "yes"
    /\ MayCreate
    /\ op' = Operation("peerSet", property,
                       IF property \in DOMAIN peer.states THEN peer.states[property]
                       ELSE vals[protoStates[property]],
                       value)
    /\ PeerCommit(IF property \in DOMAIN peer.states
                  THEN Setter(PeerElement(TRUE), property, value)
                  ELSE PrototypeSetter(PeerElement(TRUE), property, value))

\* user code writes cell.val of a cell it made, while a property can show it
WriteState(cell, value) ==
    /\ constructed = "yes"
    /\ DOMAIN protoStates # {}
    /\ vals' = [vals EXCEPT ![cell] = value]
    /\ op' = Operation("writeState", cell.s, vals[cell], value)
    /\ log' = <<>>
    /\ raised' = FALSE
    /\ UNCHANGED <<states, protoStates, attributes, _reflectingProperty,
                   _attributeToPropertyMap, _propertyToAttributeMap,
                   _hasSetupProperties, nextId, peer>>
    /\ LifecycleUnchanged

NextInstances ==
    \/ Construct
    \/ ConstructPeer
    \/ \E property \in PropertyNames, value \in InputValues[ctor.name] :
          SetProperty(property, value)
    \/ \E property \in PropertyNames, value \in InputValues[ctor.name] :
          SetPeerProperty(property, value)
    \/ \E property \in DOMAIN protoStates : SetProperty(property, UserState)
    \/ \E property \in DOMAIN protoStates : SetPeerProperty(property, UserState)
    \/ \E value \in InputValues[ctor.name] : WriteState(UserState, value)

\* both made with new: no attributes, not connected
InitInstances ==
    /\ \E name \in ClassNames : ctor = Class(name, FALSE)
    /\ isConnected = FALSE
    /\ attributes = EmptyMap
    /\ InitElement

SpecInstances == InitInstances /\ [][NextInstances]_vars

(***************************************************************************)
(* Properties of the lifecycle controller.                                 *)
(***************************************************************************)
Range(seq) == {seq[i] : i \in 1..Len(seq)}
AllDisposers == UserDisposers \cup {"ctorScope", "connectScope"}
NonSpuriousDisconnectDone == op.name = "disconnectedCallback" /\ ~isConnected

\* C1: a disconnect callback that finds the element not connected invokes
\* every disposer of the set exactly once, also when some of them throw,
\* invokes no other disposer, and leaves the set empty (so a further
\* disconnect without new registrations invokes none).
C1_DrainInvokesEachOnce ==
    [][ NonSpuriousDisconnectDone' =>
          /\ \A d \in AllDisposers :
                CountFor(log', "disposer", d) = IF d \in Range(_disposers) THEN 1 ELSE 0
          /\ Count(log', "disposer") = Len(_disposers)
          /\ _disposers' = <<>>
          /\ ~raised' ]_vars

\* a drain of three or more disposers in which one threw and a later one ran
C1_Witness ==
    /\ NonSpuriousDisconnectDone
    /\ Count(log, "disposer") >= 3
    /\ _disposers = <<>>
    /\ \E i, j \in 1..Len(log) :
          /\ i < j
          /\ log[i].e = "disposer" /\ log[i].v = Bool(TRUE)
          /\ log[j].e = "disposer"

\* C2: a disconnect callback that finds the element still connected changes
\* nothing: no disposer and no cleanup hook is invoked, the disposer set, the
\* setup-complete flag and everything else of the element stay as they are.
C2_SpuriousDisconnectIsNoOp ==
    [][ (op'.name = "disconnectedCallback" /\ isConnected') =>
          /\ log' = <<>>
          /\ UNCHANGED <<_disposers, _isSetupComplete, _hasSetupProperties, frames,
                         renderRoot, mounted, cycle, calls, states, protoStates,
                         attributes, _reflectingProperty, _attributeToPropertyMap,
                         _propertyToAttributeMap>> ]_vars

\* a spurious disconnect of a rendered element that holds disposers
C2_Witness ==
    /\ op.name = "disconnectedCallback"
    /\ isConnected
    /\ _isSetupComplete
    /\ Len(_disposers) >= 3

\* C3: once the constructor has returned, no connect or disconnect installs
\* properties again: the two name maps and the cells stay as they were and
\* no accessor is defined; and in a connection cycle with one connect
\* callback a class with render() has had render invoked exactly once.
C3_ReconnectRendersWithoutReinstalling ==
    /\ [][ constructed = "yes" =>
             /\ UNCHANGED <<_attributeToPropertyMap, _propertyToAttributeMap,
                            _hasSetupProperties>>
             /\ DOMAIN states' = DOMAIN states
             /\ DOMAIN protoStates' = DOMAIN protoStates
             /\ Count(log', "defineProperty") = 0 ]_vars
    /\ [](constructed = "yes" => _hasSetupProperties)
    /\ []((ctor.render /\ calls.connect = 1 /\ ~raised) => calls.render = 1)

\* the second connection cycle after a reconnect: rendered again, maps as built
C3_Witness ==
    /\ cycle = 2
    /\ op.name = "connectedCallback"
    /\ ctor.render /\ calls.connect = 1 /\ calls.render = 1
    /\ mounted = 3
    /\ Cardinality(DOMAIN _attributeToPropertyMap) = 1
    /\ Cardinality(DOMAIN _propertyToAttributeMap) = 2

\* C4: onMount is never invoked inside the connect callback; it is invoked
\* only by a frame callback that finds the element connected and
\* setup-complete; a frame callback is scheduled only by a connect callback
\* that has mounted the render output and set setup-complete; a frame
\* callback that finds the element disconnected does not invoke onMount.
C4_MountOnlyFromFrame ==
    [][ /\ op'.name = "connectedCallback" =>
              Count(log', "onMount") = 0 /\ calls'.mount = calls.mount
        /\ calls'.mount > calls.mount =>
              op'.name = "frame" /\ isConnected /\ _isSetupComplete
        /\ Len(frames') > Len(frames) =>
              /\ op'.name = "connectedCallback"
              /\ _isSetupComplete'
              /\ ctor.render => mounted' = mounted + 1
        /\ (op'.name = "frame" /\ ~isConnected) =>
              Count(log', "onMount") = 0 /\ calls'.mount = calls.mount ]_vars

\* the frame of the current cycle fired on a connected element: onMount ran
C4_Witness ==
    /\ op.name = "frame"
    /\ isConnected /\ _isSetupComplete
    /\ Count(log, "onMount") = 1
    /\ calls.mount = 1

\* C5: a frame callback scheduled in an earlier connection cycle than the
\* current one does not invoke onMount, and onMount is invoked at most once
\* per connection cycle.
C5_MountAtMostOncePerCycle ==
    /\ [][ (op'.name = "frame" /\ op'.n # CharAt(Digits, cycle + 1)) =>
              Count(log', "onMount") = 0 /\ calls'.mount = calls.mount ]_vars
    /\ [](calls.mount <= 1)

\* C6: a connect callback that finds setup-complete true invokes no render,
\* mounts nothing and schedules no frame callback; and render is invoked at
\* most once between construction or a non-spurious disconnect and the next
\* non-spurious disconnect.
C6_RenderAtMostOncePerCycle ==
    /\ [][ (op'.name = "connectedCallback" /\ _isSetupComplete) =>
              /\ Count(log', "render") = 0
              /\ UNCHANGED <<mounted, frames, _disposers>> ]_vars
    /\ [](calls.render <= 1)

(***************************************************************************)
(* Properties of the property / attribute engine.                          *)
(***************************************************************************)
AttributeWrites(events) == Count(events, "setAttribute") + Count(events, "removeAttribute")
IsAttributeBacked(property) == property \in DOMAIN states
IsReflected(property) == IsAttributeBacked(property) /\ UserOptionsOf(property).reflect

\* C7: synchronisation never loops.  One write to a reflect:true property
\* enters a setter once, writes a cell at most once and writes an attribute
\* at most once (the notification of that write is swallowed by the guard);
\* one attribute change made from outside, or one notification of it, enters
\* a setter at most once and writes the attribute back at most once.
C7_SyncNeverLoops ==
    [][ /\ (op'.name = "set" /\ IsReflected(op'.n)) =>
              /\ Count(log', "setter") = 1
              /\ Count(log', "cell") <= 1
              /\ AttributeWrites(log') <= 1
        /\ op'.name \in {"setAttribute", "removeAttribute"} =>
              /\ Count(log', "setter") <= 1
              /\ AttributeWrites(log') <= 2
        /\ op'.name = "attributeChangedCallback" =>
              /\ Count(log', "setter") <= 1
              /\ AttributeWrites(log') <= 1 ]_vars

\* C8: an attribute-change notification (name, old, new) with old # new, for
\* a name the attribute-to-property map sends to p, received while the guard
\* does not name p, leaves p's cell holding fromAttribute(new) of p's
\* resolved converter, on a connected and on a disconnected element.
C8_NotificationSetsCell ==
    [][ ( /\ op'.name = "attributeChangedCallback"
          /\ constructed = "yes"
          /\ op'.old # op'.new
          /\ op'.n \in DOMAIN _attributeToPropertyMap
          /\ ~IsReflecting(_reflectingProperty, _attributeToPropertyMap[op'.n]) ) =>
        LET p == _attributeToPropertyMap[op'.n]
            converter == AttributeChangeConverter(UserOptionsOf(p))
        IN  /\ p \in DOMAIN states'
            /\ states'[p] = fromAttribute(converter, op'.new, nextId).v ]_vars

\* C9: a setter call on an attribute-backed property with a value other than
\* the cell's raw value, once it has returned, has left the value in the
\* cell; with reflect:true the attribute is absent when toAttribute of the
\* resolved converter gave null and otherwise holds that result as text;
\* without reflect the attributes are as they were.
C9_SetterReflects ==
    [][ ( /\ op'.name = "set"
          /\ IsAttributeBacked(op'.n)
          /\ op'.new # op'.old
          /\ ~raised' ) =>
        LET p == op'.n
            attrName == _propertyToAttributeMap[p]
            attrValue == toAttribute(ReflectConverter(UserOptionsOf(p)), op'.new)
        IN  /\ states'[p] = op'.new
            /\ IF UserOptionsOf(p).reflect
               THEN IF attrValue.v = Null
                    THEN attrName \notin DOMAIN attributes'
                    ELSE /\ attrName \in DOMAIN attributes'
                         /\ attributes'[attrName] = JSString(attrValue.v)
               ELSE attributes' = attributes ]_vars

\* C10: a setter call on an attribute-backed property with the value its
\* cell holds writes no cell and calls neither setAttribute nor
\* removeAttribute, with and without reflect.
C10_SameValueIsNoOp ==
    [][ ( /\ op'.name = "set"
          /\ IsAttributeBacked(op'.n)
          /\ op'.new = op'.old ) =>
        /\ Count(log', "cell") = 0
        /\ AttributeWrites(log') = 0
        /\ UNCHANGED <<states, attributes>> ]_vars

\* C11: an attribute-change notification whose old and new values are equal
\* (called directly, or by the host after an attribute was set to the text it
\* had) calls no setter and leaves every cell, the attributes and the guard
\* as they were.
C11_EqualNotificationIsNoOp ==
    [][ ( /\ constructed = "yes"
          /\ op'.name \in {"attributeChangedCallback", "setAttribute"}
          /\ op'.old = op'.new ) =>
        /\ Count(log', "setter") = 0
        /\ Count(log', "cell") = 0
        /\ UNCHANGED <<states, protoStates, attributes, _reflectingProperty, nextId>>
        /\ ~raised' ]_vars

\* a direct notification with equal texts for a mapped attribute whose
\* property holds another value than the text converts to
C11_Witness ==
    /\ op.name = "attributeChangedCallback"
    /\ op.old = op.new /\ op.new # Null
    /\ op.n \in DOMAIN _attributeToPropertyMap
    /\ _reflectingProperty = NoProperty
    /\ ~OptionsOf(_attributeToPropertyMap[op.n]).isNull
    /\ LET p == _attributeToPropertyMap[op.n]
       IN  states[p] # fromAttribute(AttributeChangeConverter(OptionsOf(p)), op.new, nextId).v
    /\ log = <<>>

\* equal as values: the same kind and content, whatever the object identity
SameContent(a, b) == a.k = b.k /\ a.s = b.s
\* the element as _setupProperties leaves it, for an element not yet constructed
Installed == _setupProperties(Element(FALSE))
\* the cell of every attribute-backed property holds what the attribute the
\* element carried converts to, or the declared default when it carried none
SeededFrom(cells, p2a, carried) ==
    \A p \in DOMAIN cells :
        IF p2a[p] \in DOMAIN carried
        THEN SameContent(cells[p],
                         fromAttribute(InitialAttributeConverter(UserOptionsOf(p)),
                                       Str(carried[p2a[p]]), nextId).v)
        ELSE cells[p] = UserOptionsOf(p).default

\* C12: when _setupProperties has installed the properties (without a
\* converter throwing), and again when the constructor has returned and the
\* host has delivered the notifications for the carried attributes, the cell
\* of each attribute-backed property holds fromAttribute(attribute text) of
\* the resolved converter if the element carried the attribute, and the
\* declared default if not.
C12_InitialAttributeSeedsCell ==
    /\ []( (constructed = "no" /\ ~Installed.raised) =>
              SeededFrom(Installed.states, Installed.p2a, attributes) )
    /\ [][ (constructed = "no" /\ constructed' = "yes") =>
              SeededFrom(states', _propertyToAttributeMap', attributes) ]_vars

\* a constructed element whose attribute text replaced a declared default
C12_Witness ==
    /\ op.name = "constructor" /\ constructed = "yes"
    /\ \E p \in DOMAIN states :
          /\ _propertyToAttributeMap[p] \in DOMAIN attributes
          /\ UserOptionsOf(p).default # Undefined
          /\ states[p] # UserOptionsOf(p).default
          /\ Count(log, "cell") >= 1

(***************************************************************************)
(* Registration.  A class is known by its name ("" for a class without    *)
(* one); define is called on a class with the optional tag name.           *)
(***************************************************************************)
DefineClasses == {"MyButton", "XCounter", ""}
DefineNames == {Undefined, Str(""), Str("my-button"), Str("x-y"), Str("button")}

\* customElements.define(tagName, classToDefine) throws for a name that is
\* no valid custom element name, for a name in use and for a class in use
customElementsDefineThrows(reg, tagName, classToDefine) ==
    \/ tagName = ""
    \/ ~IsLower(CharAt(tagName, 1))
    \/ \A i \in 1..Len(tagName) : CharAt(tagName, i) # "-"
    \/ \E i \in 1..Len(tagName) : IsUpper(CharAt(tagName, i))
    \/ tagName \in DOMAIN reg
    \/ \E t \in DOMAIN reg : reg[t] = classToDefine

\* static define(name): the registry after the call, the value returned,
\* whether the call threw, and its events
\* (variant: customElements.define called at once, outside a try block)
defineUnguarded(reg, classToDefine, name) ==
    LET tagName == IF IsNullish(name) THEN camelAndPascalToKebab(classToDefine)
                   ELSE JSString(name)
    IN  IF customElementsDefineThrows(reg, tagName, classToDefine)
        THEN [registry |-> reg, returned |-> Undefined, raised |-> TRUE,
              log |-> <<Event("customElements.define", tagName, Str(classToDefine))>>]
        ELSE [registry |-> (tagName :> classToDefine) @@ reg,
              returned |-> Str(classToDefine), raised |-> FALSE,
              log |-> <<Event("customElements.define", tagName, Str(classToDefine))>>]
define(reg, classToDefine, name) ==
    LET tagName0 == IF Truthy(name) THEN JSString(name) ELSE classToDefine
        tagName == IF IsNullish(name) THEN camelAndPascalToKebab(tagName0)
                   ELSE JSString(name)
        result(registered, events) ==
            [registry |-> registered, returned |-> Str(classToDefine), raised |-> FALSE,
             log |-> events]
    IN  IF tagName0 = ""
        THEN result(reg, <<Event("console.error", "", Str(classToDefine))>>)
        ELSE IF tagName \in DOMAIN reg
        THEN result(reg, <<Event("customElements.get", tagName, Str(reg[tagName])),
                           Event("console.warn", tagName, Undefined)>>)
        ELSE IF customElementsDefineThrows(reg, tagName, classToDefine)
        THEN result(reg, <<Event("customElements.get", tagName, Undefined),
                           Event("customElements.define", tagName, Str(classToDefine)),
                           Event("console.error", tagName, Undefined)>>)
        ELSE result((tagName :> classToDefine) @@ reg,
                    <<Event("customElements.get", tagName, Undefined),
                      Event("customElements.define", tagName, Str(classToDefine))>>)

\* user code calls classToDefine.define(name)
Define(classToDefine, name) ==
    /\ \E r \in {define(registry, classToDefine, name)} :
          /\ registry' = r.registry
          /\ op' = Operation("define", classToDefine, name, r.returned)
          /\ log' = r.log
          /\ raised' = r.raised
    /\ UNCHANGED <<states, protoStates, vals, attributes, _reflectingProperty,
                   _attributeToPropertyMap, _propertyToAttributeMap,
                   _hasSetupProperties, nextId, peer>>
    /\ UNCHANGED <<ctor, constructed, isConnected, renderRoot, mounted, _disposers,
                   _isSetupComplete, frames, cycle, calls, ownCreateRenderRoot,
                   rootStyles, rootsCreated, members>>

NextDefine == \E classToDefine \in DefineClasses, name \in DefineNames : Define(classToDefine, name)

\* no element yet: the classes exist and nothing is registered
InitDefine ==
    /\ ctor = Class("counter", FALSE)
    /\ isConnected = FALSE
    /\ attributes = EmptyMap
    /\ InitElement

SpecDefine == InitDefine /\ [][NextDefine]_vars

\* what reading element[property] and peer[property] gives: the cell's value
ReadProperty(property) ==
    IF property \in DOMAIN states THEN states[property] ELSE vals[protoStates[property]]
ReadPeerProperty(property) ==
    IF property \in DOMAIN peer.states THEN peer.states[property]
    ELSE vals[protoStates[property]]

\* C13: property state is per instance.  With both instances constructed, a
\* write to a property of one (attribute-backed or attribute:false) leaves
\* the value read from every property of the other as it was; and the
\* construction of one leaves what the other reads as it was.
C13_StateIsPerInstance ==
    [][ /\ (op'.name = "set" /\ peer.constructed = "yes") =>
              \A p \in PropertyNames : ReadPeerProperty(p)' = ReadPeerProperty(p)
        /\ (op'.name = "peerSet" /\ constructed = "yes") =>
              \A p \in PropertyNames : ReadProperty(p)' = ReadProperty(p)
        /\ (op'.name = "peerConstructor" /\ constructed = "yes") =>
              \A p \in PropertyNames : ReadProperty(p)' = ReadProperty(p)
        /\ (op'.name = "constructor" /\ peer.constructed = "yes") =>
              \A p \in PropertyNames : ReadPeerProperty(p)' = ReadPeerProperty(p) ]_vars

\* the converter of a property: the explicit one, else the built-in one of
\* the type tag, else the identity
ExpectedConverter(options) ==
    IF options.converter # "" THEN options.converter
    ELSE IF options.type \in {"String", "Number", "Boolean", "Object", "Array"}
         THEN options.type
    ELSE "default"

\* no carried attribute has a text that the property's converter turns into
\* a value it cannot turn back
SeedingConverts ==
    \A i \in 1..Len(Properties) :
        LET options == UserOptionsOf(Properties[i].name)
            attrName == AttributeNameOfClass[ctor.name][i]
            converter == ExpectedConverter(options)
        IN  (options.attribute # Bool(FALSE) /\ attrName \in DOMAIN attributes) =>
                toAttribute(converter,
                            fromAttribute(converter, Str(attributes[attrName]), nextId).v).ok

\* C14: the three conversion sites use that converter.  (1) A notification
\* that reaches the setter passes it fromAttribute(new) of that converter;
\* (2) a write that reflects writes the attribute toAttribute(v) of that
\* converter gives; (3) installation seeds a cell from a carried attribute
\* with fromAttribute of that converter, and ends without an exception when
\* that converter raises none.  The class whose property has both
\* an explicit converter and a type tag shows that the explicit one wins.
C14_ConverterResolution ==
    /\ [][ ( /\ op'.name = "attributeChangedCallback"
              /\ constructed = "yes"
              /\ op'.old # op'.new
              /\ op'.n \in DOMAIN _attributeToPropertyMap
              /\ ~IsReflecting(_reflectingProperty, _attributeToPropertyMap[op'.n])
              /\ ~OptionsOf(_attributeToPropertyMap[op'.n]).isNull ) =>
            LET p == _attributeToPropertyMap[op'.n]
                value == fromAttribute(ExpectedConverter(OptionsOf(p)), op'.new, nextId)
            IN  /\ Len(log') >= 1
                /\ log'[1] = Event("setter", p, value.v) ]_vars
    /\ [][ ( /\ op'.name = "set"
              /\ IsReflected(op'.n)
              /\ ~StrictEquals(op'.old, op'.new) ) =>
            LET p == op'.n
                attrName == _propertyToAttributeMap[p]
                attrValue == toAttribute(ExpectedConverter(UserOptionsOf(p)), op'.new)
            IN  IF ~attrValue.ok THEN raised' /\ AttributeWrites(log') = 0
                ELSE /\ Len(log') >= 3
                     /\ log'[3] = IF attrValue.v = Null
                                  THEN Event("removeAttribute", attrName, Null)
                                  ELSE Event("setAttribute", attrName,
                                             Str(JSString(attrValue.v))) ]_vars
    /\ []( (constructed = "no" /\ ~Installed.raised) =>
              \A p \in DOMAIN Installed.states :
                  Installed.p2a[p] \in DOMAIN attributes =>
                      SameContent(Installed.states[p],
                                  fromAttribute(ExpectedConverter(UserOptionsOf(p)),
                                                Str(attributes[Installed.p2a[p]]),
                                                nextId).v) )
    /\ []( (constructed = "no" /\ SeedingConverts) => ~Installed.raised )

\* the property with an explicit date converter and the type tag Object got
\* a Date from a notification, not the text the object converter would keep
\* nor a parsed object, and its attribute holds the converter's text
C14_Witness ==
    /\ ctor.name = "dated"
    /\ OptionsOf("when").converter = "date" /\ OptionsOf("when").type = "Object"
    /\ op.name = "attributeChangedCallback"
    /\ op.new \in {Str(t) : t \in IsoTexts}
    /\ states["when"] = Date(op.new.s, states["when"].id)
    /\ "when" \in DOMAIN attributes /\ attributes["when"] = op.new.s
    /\ Count(log, "setter") = 1

\* a value of the type the built-in converter of the tag is made for
\* (numbers: the integers of the inputs, not NaN)
IsOfType(type, v) ==
    CASE type = "String" -> v.k = "string"
      [] type = "Number" -> v.k = "number" /\ v # NaN
      [] type = "Boolean" -> v.k = "boolean"
      [] type \in {"Object", "Array"} -> v.k = "object"
      [] OTHER -> FALSE
\* the attribute as getAttribute gives it after the step
AttributeAfter(name) == IF name \in DOMAIN attributes' THEN Str(attributes'[name]) ELSE Null

\* C15: round trip.  After a write of a value v of the property's type to a
\* reflect:true property that has a built-in converter by its type tag,
\* fromAttribute of the attribute (its text, or null when absent) is a value
\* equal to v.
C15_RoundTrip ==
    [][ ( /\ op'.name = "set"
          /\ IsReflected(op'.n)
          /\ UserOptionsOf(op'.n).converter = ""
          /\ IsOfType(UserOptionsOf(op'.n).type, op'.new)
          /\ ~raised' ) =>
        LET p == op'.n
            back == fromAttribute(UserOptionsOf(p).type,
                                  AttributeAfter(_propertyToAttributeMap[p]), nextId')
        IN  back.ok /\ SameContent(back.v, op'.new) ]_vars

\* the value a built-in converter gives for an absent attribute
FromNull(type) == IF type = "Boolean" THEN Bool(FALSE) ELSE Null
\* the property has a built-in converter by its type tag
HasBuiltIn(p) ==
    /\ ~UserOptionsOf(p).isNull
    /\ UserOptionsOf(p).converter = ""
    /\ UserOptionsOf(p).type \in ConverterTypeNames

\* C16: null through the built-in converters.  For each of the five type
\* tags toAttribute(null) is null, and fromAttribute(null) is null for
\* String, Number, Object and Array and false for Boolean.  On the element:
\* the removal of the attribute of a property converted by its type tag
\* passes that value to the setter, and a write of null to such a property
\* with reflect:true removes the attribute and sets none.
C16_NullThroughBuiltIns ==
    /\ [](\A type \in ConverterTypeNames :
              /\ toAttribute(type, Null) = Return(Null)
              /\ fromAttribute(type, Null, nextId) = Return(FromNull(type)))
    /\ [][ ( /\ op'.name \in {"attributeChangedCallback", "removeAttribute"}
              /\ constructed = "yes"
              /\ op'.new = Null /\ op'.old # Null
              /\ op'.n \in DOMAIN _attributeToPropertyMap
              /\ ~IsReflecting(_reflectingProperty, _attributeToPropertyMap[op'.n])
              /\ HasBuiltIn(_attributeToPropertyMap[op'.n]) ) =>
            LET p == _attributeToPropertyMap[op'.n]
            IN  \E i \in 1..Len(log') :
                    /\ log'[i] = Event("setter", p, FromNull(UserOptionsOf(p).type))
                    /\ \A j \in 1..(i - 1) : log'[j].e # "setter" ]_vars
    /\ [][ ( /\ op'.name = "set"
              /\ IsReflected(op'.n)
              /\ HasBuiltIn(op'.n)
              /\ op'.new = Null /\ op'.old # Null ) =>
            /\ Len(log') >= 3
            /\ log'[3] = Event("removeAttribute", _propertyToAttributeMap[op'.n], Null)
            /\ Count(log', "setAttribute") = 0
            /\ _propertyToAttributeMap[op'.n] \notin DOMAIN attributes' ]_vars

\* the attribute of a Boolean property that held true was removed and the
\* cell holds false; the attribute of a Number property was removed and the
\* cell holds null
C16_Witness ==
    /\ op.name = "removeAttribute"
    /\ op.old # Null
    /\ op.n \in DOMAIN _attributeToPropertyMap
    /\ LET p == _attributeToPropertyMap[op.n]
       IN  /\ HasBuiltIn(p)
           /\ UserOptionsOf(p).type = "Boolean"
           /\ CountFor(log, "cell", p) = 1
           /\ states[p] = Bool(FALSE)
    /\ op.n \notin DOMAIN attributes

\* values that are truthy and values that are falsy in JavaScript
TruthyValues == {Bool(TRUE), Num("1"), Str("false"), Str("a"), Str("0"), UserObject, UserDate}
FalsyValues == {Null, Undefined, Bool(FALSE), Num("0"), NaN, Str("")}
\* attribute texts
SomeTexts == {Str(""), Str("false"), Str("true"), Str("0"), Str("a")}

\* C17: the boolean converter encodes by presence only.  toAttribute gives
\* the empty string for every truthy value and null for every falsy one;
\* fromAttribute gives true for every text, "false" and the empty text
\* included, and false for null.  On the element: a notification or a host
\* write that carries a text for the attribute of a Boolean property passes
\* true to the setter and leaves the cell holding true.
C17_BooleanByPresence ==
    /\ []( /\ \A v \in TruthyValues : booleanConverter_toAttribute(v) = Return(Str(""))
           /\ \A v \in FalsyValues : booleanConverter_toAttribute(v) = Return(Null)
           /\ \A t \in SomeTexts : booleanConverter_fromAttribute(t) = Return(Bool(TRUE))
           /\ booleanConverter_fromAttribute(Null) = Return(Bool(FALSE)) )
    /\ [][ ( /\ op'.name \in {"attributeChangedCallback", "setAttribute"}
              /\ constructed = "yes"
              /\ op'.new # Null /\ op'.old # op'.new
              /\ op'.n \in DOMAIN _attributeToPropertyMap
              /\ ~IsReflecting(_reflectingProperty, _attributeToPropertyMap[op'.n])
              /\ HasBuiltIn(_attributeToPropertyMap[op'.n])
              /\ UserOptionsOf(_attributeToPropertyMap[op'.n]).type = "Boolean" ) =>
            LET p == _attributeToPropertyMap[op'.n]
            IN  /\ \E i \in 1..Len(log') :
                       /\ log'[i] = Event("setter", p, Bool(TRUE))
                       /\ \A j \in 1..(i - 1) : log'[j].e # "setter"
                /\ states'[p] = Bool(TRUE) ]_vars
    /\ [][ ( /\ op'.name = "set"
              /\ IsReflected(op'.n)
              /\ HasBuiltIn(op'.n)
              /\ UserOptionsOf(op'.n).type = "Boolean"
              /\ op'.old # op'.new ) =>
            /\ Len(log') >= 3
            /\ log'[3] = IF Truthy(op'.new)
                         THEN Event("setAttribute", _propertyToAttributeMap[op'.n], Str(""))
                         ELSE Event("removeAttribute", _propertyToAttributeMap[op'.n], Null) ]_vars

\* the host set the attribute of a Boolean property that held false to the
\* text "false", and the cell holds true
C17_Witness ==
    /\ op.name = "setAttribute"
    /\ op.new = Str("false")
    /\ op.n \in DOMAIN _attributeToPropertyMap
    /\ LET p == _attributeToPropertyMap[op.n]
       IN  /\ HasBuiltIn(p)
           /\ UserOptionsOf(p).type = "Boolean"
           /\ CountFor(log, "cell", p) = 1
           /\ states[p] = Bool(TRUE)

\* texts JSON.parse rejects
UnparsableTexts == {"not json", "{", "abc", ""}
\* the text is one JSON.parse rejects
IsUnparsable(v) == v.k = "string" /\ ~JSONParse(v.s, 0).ok

\* C18: fromAttribute of the object/array converter never throws.  Null
\* gives null, an object is returned as it is, the text of a JSON object
\* gives the parsed object, and a text JSON.parse rejects is returned as the
\* same string.  On the element: a notification or host write carrying such
\* a text for the attribute of an Object property ends without an exception
\* and leaves the cell holding that string.
C18_ObjectFromAttributeNeverThrows ==
    /\ []( /\ objectConverter_fromAttribute(Null, nextId) = Return(Null)
           /\ \A v \in {UserObject, UserDate} :
                  objectConverter_fromAttribute(v, nextId) = Return(v)
           /\ \A t \in JsonObjectTexts :
                  objectConverter_fromAttribute(Str(t), nextId) = Return(Obj(t, nextId))
           /\ \A t \in UnparsableTexts :
                  /\ IsUnparsable(Str(t))
                  /\ objectConverter_fromAttribute(Str(t), nextId) = Return(Str(t))
           /\ \A v \in TruthyValues \cup FalsyValues \cup SomeTexts :
                  objectConverter_fromAttribute(v, nextId).ok )
    /\ [][ ( /\ op'.name \in {"attributeChangedCallback", "setAttribute"}
              /\ constructed = "yes"
              /\ IsUnparsable(op'.new) /\ op'.old # op'.new
              /\ op'.n \in DOMAIN _attributeToPropertyMap
              /\ ~IsReflecting(_reflectingProperty, _attributeToPropertyMap[op'.n])
              /\ HasBuiltIn(_attributeToPropertyMap[op'.n])
              /\ UserOptionsOf(_attributeToPropertyMap[op'.n]).type \in {"Object", "Array"} ) =>
            LET p == _attributeToPropertyMap[op'.n]
            IN  /\ ~raised'
                /\ \E i \in 1..Len(log') : log'[i] = Event("setter", p, op'.new)
                /\ states'[p] = op'.new ]_vars
    /\ []( (constructed = "no" /\ ctor.name = "data") => ~Installed.raised )

\* a notification carried a text that is no JSON to the attribute of an
\* Object property that held an object; the cell now holds the text
C18_Witness ==
    /\ op.name = "attributeChangedCallback"
    /\ IsUnparsable(op.new)
    /\ op.n \in DOMAIN _attributeToPropertyMap
    /\ LET p == _attributeToPropertyMap[op.n]
       IN  /\ HasBuiltIn(p)
           /\ UserOptionsOf(p).type = "Object"
           /\ CountFor(log, "cell", p) = 1
           /\ states[p] = op.new
    /\ op.old \in {Str(t) : t \in JsonObjectTexts}
    /\ ~raised

\* C19: the string and number converters treat undefined like null.  A
\* write of undefined to a reflect:true property converted by the type tag
\* String or Number, whose cell held another value, removes the attribute
\* and sets no attribute text.
C19_UndefinedRemovesAttribute ==
    [][ ( /\ op'.name = "set"
          /\ IsReflected(op'.n)
          /\ HasBuiltIn(op'.n)
          /\ UserOptionsOf(op'.n).type \in {"String", "Number"}
          /\ op'.new = Undefined /\ op'.old # Undefined ) =>
        /\ Count(log', "setAttribute") = 0
        /\ _propertyToAttributeMap[op'.n] \notin DOMAIN attributes' ]_vars

\* C20: no exception of a user hook escapes a host lifecycle callback.  A
\* connectedCallback whose render hook throws and a frame callback whose
\* onMount hook throws end without an exception, and a connectedCallback
\* that runs the setup leaves the setup complete, as for hooks that do not
\* throw.
C20_NoHookExceptionEscapes ==
    [][ /\ op'.name \in {"connectedCallback", "frame"} => ~raised'
        /\ (op'.name = "connectedCallback" /\ SetupDue(_isSetupComplete)) =>
               _isSetupComplete' ]_vars

\* the kebab-case names of the property names of the classes
KebabNames ==
    [count |-> "count", myLabel |-> "my-label", isActive |-> "is-active", data |-> "data",
     myProp |-> "my-prop", internal |-> "internal", first |-> "first", second |-> "second",
     size |-> "size", value |-> "value", caption |-> "caption", when |-> "when",
     zoom |-> "zoom", world |-> "world"]
\* the schema entries that have an attribute: config not null, attribute not false
HasAttributeEntry(entry) == ~entry.options.isNull /\ entry.options.attribute # Bool(FALSE)
\* the name such an entry is observed under
ExpectedAttributeName(entry) ==
    IF entry.options.attribute.k = "string" THEN entry.options.attribute.s
    ELSE KebabNames[entry.name]
ExpectedObserved ==
    LET entries == SelectSeq(Properties, HasAttributeEntry)
    IN  [i \in 1..Len(entries) |-> ExpectedAttributeName(entries[i])]

\* C21: observedAttributes holds, in schema order, one name for each schema
\* entry whose config is not null and whose attribute option is not false:
\* the explicit string, or else the kebab-case property name; other entries
\* contribute nothing.  A host write that changes an attribute of a
\* constructed element reaches a setter only for a name of that list.
C21_ObservedAttributes ==
    /\ [](observedAttributes = ExpectedObserved)
    /\ [][ ( /\ op'.name = "setAttribute"
              /\ constructed = "yes"
              /\ op'.old # op'.new
              /\ op'.n \notin Range(ExpectedObserved) ) =>
            /\ Count(log', "setter") = 0
            /\ UNCHANGED <<states, protoStates>> ]_vars
    /\ [][ ( /\ op'.name = "setAttribute"
              /\ constructed = "yes"
              /\ op'.old # op'.new
              /\ op'.n \in Range(ExpectedObserved)
              /\ _reflectingProperty = NoProperty ) =>
            Count(log', "setter") >= 1 ]_vars

\* the class whose second entry has attribute:false observes the one name
\* of its first entry, and a host write to that attribute reached the setter
C21_Witness ==
    /\ \E i \in 1..Len(Properties) : Properties[i].options.attribute = Bool(FALSE)
    /\ Len(observedAttributes) = Len(Properties) - 1
    /\ op.name = "setAttribute"
    /\ op.n = "my-prop" /\ op.n = observedAttributes[1]
    /\ CountFor(log, "setter", "myProp") = 1

\* C22: installation skips a schema entry whose config is null or
\* undefined.  On a constructed element such an entry has no accessor (no
\* cell on the instance or on the prototype) and no entry in either name
\* map, and the constructor of its class ended without an exception.
C22_NullConfigSkipped ==
    [](\A i \in 1..Len(Properties) :
          Properties[i].options.isNull =>
              /\ constructed # "failed"
              /\ constructed = "yes" =>
                    /\ Properties[i].name \notin DOMAIN states
                    /\ Properties[i].name \notin DOMAIN protoStates
                    /\ Properties[i].name \notin DOMAIN _propertyToAttributeMap
                    /\ \A a \in DOMAIN _attributeToPropertyMap :
                          _attributeToPropertyMap[a] # Properties[i].name)

\* the attribute:false properties of the class
UnbackedProperties ==
    {Properties[i].name :
        i \in {j \in 1..Len(Properties) : UserOptionsOf(Properties[j].name).attribute = Bool(FALSE)}}

\* C23: the accessor of an attribute:false property.  (1) Assigning a cell
\* makes that cell the property's cell and writes no cell; (2) assigning a
\* plain value keeps the property's cell and writes the value into it;
\* (3) the cell the element reads through the property stays the same until
\* the element assigns the property a cell again, so that (4) a later write
\* to that cell is what the property reads; (5) the constructor takes a
\* default that is a cell as the property's cell and leaves its value.
C23_CellAssignment ==
    [][ constructed' = "yes" =>
          \A p \in UnbackedProperties :
              /\ (op'.name = "set" /\ op'.n = p /\ isValueState(op'.new)) =>
                    protoStates'[p] = op'.new /\ vals' = vals
              /\ (op'.name = "set" /\ op'.n = p /\ ~isValueState(op'.new)) =>
                    /\ protoStates'[p] = protoStates[p]
                    /\ vals'[protoStates[p]] = op'.new
              /\ (constructed = "yes" /\ ~(op'.name = "set" /\ op'.n = p)) =>
                    protoStates'[p] = protoStates[p]
              /\ (op'.name = "writeState" /\ protoStates[p] = UserState) =>
                    ReadProperty(p)' = op'.new
              /\ (op'.name = "constructor" /\ isValueState(UserOptionsOf(p).default)) =>
                    /\ protoStates'[p] = UserOptionsOf(p).default
                    /\ vals'[protoStates'[p]] = vals[protoStates'[p]] ]_vars

\* the attribute names that belong to attribute:false properties only
UnbackedNames ==
    {KebabNames[p] : p \in UnbackedProperties} \ Range(ExpectedObserved)
\* the value an attribute:false property has after installation
InstalledValue(p, before) ==
    IF isValueState(UserOptionsOf(p).default) THEN before[UserOptionsOf(p).default]
    ELSE UserOptionsOf(p).default

\* C24: an attribute:false property never touches attributes, with and
\* without reflect.  (1) A write to it calls neither setAttribute nor
\* removeAttribute and leaves the attributes as they are; (2) a host write,
\* a removal or a notification for the attribute of its kebab-case name
\* calls no setter and leaves its cell and the cell's value; (3) after the
\* constructor, whatever attributes the element carried, it holds its
\* default; (4) neither name map has an entry for it.
C24_UnbackedNeverTouchesAttributes ==
    /\ [][ (op'.name = "set" /\ op'.n \in UnbackedProperties) =>
              /\ AttributeWrites(log') = 0
              /\ attributes' = attributes ]_vars
    /\ [][ ( /\ op'.name \in {"setAttribute", "removeAttribute", "attributeChangedCallback"}
              /\ op'.n \in UnbackedNames ) =>
              /\ Count(log', "setter") = 0
              /\ UNCHANGED <<protoStates, vals, states>> ]_vars
    /\ [][ (op'.name = "constructor" /\ constructed' = "yes") =>
              \A p \in UnbackedProperties :
                  /\ p \in DOMAIN protoStates'
                  /\ vals'[protoStates'[p]] = InstalledValue(p, vals)
                  /\ CountFor(log', "setter", p) = 0 ]_vars
    /\ [](constructed = "yes" =>
              \A p \in UnbackedProperties :
                  /\ p \notin DOMAIN _propertyToAttributeMap
                  /\ p \notin DOMAIN states
                  /\ \A a \in DOMAIN _attributeToPropertyMap :
                        _attributeToPropertyMap[a] # p)

\* a write to the attribute:false property with reflect:true while the
\* element carries an attribute of the property's name: the value is in the
\* cell and the attribute still holds the carried text
C24_Witness ==
    /\ op.name = "set"
    /\ op.n \in UnbackedProperties
    /\ UserOptionsOf(op.n).reflect
    /\ op.new # op.old
    /\ vals[protoStates[op.n]] = op.new
    /\ KebabNames[op.n] \in DOMAIN attributes
    /\ attributes[KebabNames[op.n]] # JSString(op.new)

\* the tag names the class names of the inputs convert to
ClassTags == ("MyButton" :> "my-button") @@ ("XCounter" :> "x-counter") @@ ("" :> "")

\* C25: static define never throws and returns the class it was called on.
\* Every registration that existed stays as it was.  With no tag name (no
\* argument or an empty one, on a class without a name) the registry is
\* neither asked nor changed; with a tag name that is registered the
\* registry's define is not called and nothing changes; otherwise the
\* registry's define is called once and either registers the class under
\* the tag name or throws, and then nothing is registered and the call
\* still returns the class.
C25_DefineNeverThrows ==
    [][ op'.name = "define" =>
        LET classToDefine == op'.n
            name == op'.old
            missing == name \in {Undefined, Str("")} /\ classToDefine = ""
            tagName == IF name = Undefined THEN ClassTags[classToDefine] ELSE name.s
        IN  /\ ~raised'
            /\ op'.new = Str(classToDefine)
            /\ \A t \in DOMAIN registry : t \in DOMAIN registry' /\ registry'[t] = registry[t]
            /\ missing =>
                  /\ registry' = registry
                  /\ Count(log', "customElements.get") = 0
                  /\ Count(log', "customElements.define") = 0
            /\ (~missing /\ tagName \in DOMAIN registry) =>
                  /\ registry' = registry
                  /\ Count(log', "customElements.define") = 0
            /\ (~missing /\ tagName \notin DOMAIN registry) =>
                  /\ Count(log', "customElements.define") = 1
                  /\ \/ registry' = (tagName :> classToDefine) @@ registry
                     \/ registry' = registry /\ Count(log', "console.error") = 1
                  /\ (tagName \in {"my-button", "x-y", "x-counter"}
                        /\ \A t \in DOMAIN registry : registry[t] # classToDefine) =>
                        tagName \in DOMAIN registry' ]_vars

\* define on a class with a tag name another class holds: the registration
\* stays and the class is returned
C25_Witness ==
    /\ op.name = "define"
    /\ op.old = Str("my-button") /\ op.n = "XCounter"
    /\ "my-button" \in DOMAIN registry /\ registry["my-button"] = "MyButton"
    /\ Count(log, "console.warn") = 1
    /\ Count(log, "customElements.define") = 0
    /\ op.new = Str("XCounter")
    /\ ~raised

\* C26: registerDisposer returns the argument it was given and raises
\* nothing.  A callable argument is in the disposer set afterwards, after
\* the disposers that were there, which keep their order; an argument that
\* is not callable leaves the set as it was, and the set never holds one.
C26_RegisterDisposer ==
    /\ [][ op'.name = "registerDisposer" =>
              /\ ~raised'
              /\ op'.new = Str(op'.n)
              /\ IF op'.n = NotAFunction
                 THEN _disposers' = _disposers
                 ELSE /\ op'.n \in Range(_disposers')
                      /\ _disposers' = IF op'.n \in Range(_disposers) THEN _disposers
                                       ELSE Append(_disposers, op'.n) ]_vars
    /\ [](NotAFunction \notin Range(_disposers))

\* an argument that is not callable was given while the set held disposers
C26_Witness ==
    /\ op.name = "registerDisposer"
    /\ op.n = NotAFunction
    /\ op.new = Str(NotAFunction)
    /\ Len(_disposers) >= 2
    /\ ~raised

\* C27: style application is idempotent.  In every state the render root
\* holds at most one managed style element and its adopted stylesheets hold
\* the class's stylesheet at most once; once a render root exists it holds
\* the string style exactly once, or (a shadow root) the stylesheet exactly
\* once.  A connect that finds the render root and a direct _setupStyles()
\* change nothing, and so does _setupStyles() without a render root or
\* without declared styles.
C27_StylesIdempotent ==
    /\ []( /\ rootStyles.styleEls <= 1
           /\ Len(rootStyles.adoptedStyleSheets) <= 1
           /\ renderRoot # "null" =>
                 /\ rootStyles.styleEls = IF ctor.styles = "string" THEN 1 ELSE 0
                 /\ rootStyles.adoptedStyleSheets =
                       IF ctor.styles = "sheet" /\ renderRoot = "shadow"
                       THEN <<"sheet">> ELSE <<>> )
    /\ [][ (op'.name = "_setupStyles" \/ (op'.name = "connectedCallback" /\ renderRoot # "null"))
              => rootStyles' = rootStyles ]_vars
    /\ [][ (renderRoot' = "null" \/ ctor.styles = "none") => rootStyles' = NoStyles ]_vars

\* a direct _setupStyles() on an element in its third connection cycle whose
\* shadow root has adopted the class's stylesheet
C27_Witness ==
    /\ op.name = "_setupStyles"
    /\ ctor.styles = "sheet"
    /\ renderRoot = "shadow"
    /\ rootStyles.adoptedStyleSheets = <<"sheet">>
    /\ cycle = 2
    /\ isConnected /\ _isSetupComplete

\* C28: the render root is made at most once, by the first connect, and
\* stays the same node over every later step.  noShadowDOM() before that
\* makes the first connect take the host element as render root;
\* noShadowDOM() once the render root exists changes neither the render
\* root nor the element's createRenderRoot.
C28_RenderRootOnce ==
    /\ [](rootsCreated <= 1)
    /\ [](renderRoot = "null" <=> rootsCreated = 0)
    /\ [][ renderRoot # "null" => UNCHANGED <<renderRoot, rootsCreated>> ]_vars
    /\ [][ renderRoot' # renderRoot =>
              /\ op'.name = "connectedCallback"
              /\ renderRoot' = IF ownCreateRenderRoot THEN "host" ELSE "shadow" ]_vars
    /\ [][ op'.name = "noShadowDOM" =>
              IF renderRoot = "null"
              THEN ownCreateRenderRoot' /\ renderRoot' = "null"
              ELSE UNCHANGED <<renderRoot, ownCreateRenderRoot, rootStyles>> ]_vars
    /\ [](renderRoot = "host" => ownCreateRenderRoot)
    /\ [](renderRoot = "shadow" => ~ownCreateRenderRoot)

\* noShadowDOM() on a reconnected element that has a shadow root: the call
\* warned and the element keeps the shadow root and its createRenderRoot
C28_Witness ==
    /\ op.name = "noShadowDOM"
    /\ renderRoot = "shadow"
    /\ ~ownCreateRenderRoot
    /\ cycle >= 1
    /\ Count(log, "console.warn") = 1

\* C29: setup of a functional component runs once per instance.  The
\* constructor calls setup exactly once, after every property of the schema
\* was installed (all defineProperty events precede it, and every declared
\* name has its cell), and no other operation calls it.  What setup
\* returned is the render function: a connect that sets up calls render
\* exactly when setup returned a function.
C29_SetupOncePerInstance ==
    /\ [][ op'.name = "constructor" /\ constructed' = "yes" =>
              /\ Count(log', "setup") = 1
              /\ \A i, j \in 1..Len(log') :
                    (log'[i].e = "defineProperty" /\ log'[j].e = "setup") => i < j
              /\ CountFor(log', "defineProperty", "count") = 1
              /\ PropertyNames \subseteq DOMAIN states' \cup DOMAIN protoStates'
              /\ "setupScope" \in Range(_disposers') ]_vars
    /\ [][ op'.name # "constructor" => Count(log', "setup") = 0 ]_vars
    /\ [][ (op'.name = "connectedCallback" /\ ~_isSetupComplete) =>
              Count(log', "render") = IF ctor.render THEN 1 ELSE 0 ]_vars
    /\ [][ (op'.name = "connectedCallback" /\ _isSetupComplete) =>
              Count(log', "render") = 0 ]_vars

\* the second connect of an instance whose setup returned a render function:
\* render was called, setup was not
C29_Witness ==
    /\ op.name = "connectedCallback"
    /\ ctor.setup /\ ctor.render
    /\ cycle = 1
    /\ Count(log, "render") = 1
    /\ Count(log, "setup") = 0
    /\ _isSetupComplete

(***************************************************************************)
(* The props accessor of a functional element.  props and props.set are    *)
(* proxies whose traps look the key up with `key in properties`, where     *)
(* properties is the object literal of the class: the operator `in` is     *)
(* true for the own keys of that object and for the members it inherits    *)
(* from Object.prototype.                                                  *)
(***************************************************************************)
\* members every object literal inherits (one of them stands for all)
ObjectPrototypeNames == {"toString"}
\* a name that is neither declared nor inherited
UndeclaredName == "nonExistent"
ProxyKeys == PropertyNames \cup ObjectPrototypeNames \cup {"set", UndeclaredName}
Proxies == {"props", "props.set"}

\* key in properties
KeyInProperties(key) == key \in PropertyNames \/ key \in ObjectPrototypeNames

\* this[key] = value on the element: the accessor of a declared name, else an
\* own data property of the instance
AssignMember(el, mem, key, value) ==
    IF key \in DOMAIN el.states THEN [el |-> Setter(el, key, value), members |-> mem]
    ELSE IF key \in DOMAIN el.protoStates
    THEN [el |-> PrototypeSetter(el, key, value), members |-> mem]
    ELSE [el |-> el, members |-> (key :> value) @@ mem]

\* the set trap of props.set: what the trap returns and what it did
setterSetTrap(el, mem, key, value) ==
    IF KeyInProperties(key)
    THEN LET assigned == AssignMember(el, mem, key, value)
         IN  [el |-> assigned.el, members |-> assigned.members, returned |-> TRUE]
    ELSE [el |-> el, members |-> mem, returned |-> FALSE]

\* the set trap of props: set is read-only
propsSetTrap(el, mem, key, value) ==
    IF key = "set" THEN [el |-> el, members |-> mem, returned |-> FALSE]
    ELSE setterSetTrap(el, mem, key, value)

\* the has traps
setterHasTrap(key) == KeyInProperties(key)
propsHasTrap(key) == IF key = "set" THEN TRUE ELSE KeyInProperties(key)

\* setup's code assigns props[key] = value or props.set[key] = value; the
\* last event of the operation is what the trap returned (an assignment the
\* trap answers with false is dropped, or a TypeError in strict code)
ProxySet(proxy, key, value) ==
    /\ constructed = "yes"
    /\ ctor.setup
    /\ MayCreate
    /\ \E trap \in {IF proxy = "props" THEN propsSetTrap(Element(TRUE), members, key, value)
                    ELSE setterSetTrap(Element(TRUE), members, key, value)} :
          /\ Commit(IF trap.el.raised THEN trap.el
                    ELSE Logged(trap.el, "returned", key, Bool(trap.returned)))
          /\ members' = trap.members
    /\ op' = Operation(proxy \o "[key] = value", key, Undefined, value)
    /\ UNCHANGED <<ctor, constructed, isConnected, renderRoot, mounted, _disposers,
                   _isSetupComplete, frames, cycle, calls, peer, registry,
                   ownCreateRenderRoot, rootStyles, rootsCreated>>

\* setup's code evaluates key in props or key in props.set; op.new is the answer
ProxyHas(proxy, key) ==
    /\ constructed = "yes"
    /\ ctor.setup
    /\ op' = Operation("key in " \o proxy, key, Undefined,
                       Bool(IF proxy = "props" THEN propsHasTrap(key) ELSE setterHasTrap(key)))
    /\ log' = <<>>
    /\ raised' = FALSE
    /\ EngineUnchanged
    /\ UNCHANGED <<ctor, constructed, isConnected, renderRoot, mounted, _disposers,
                   _isSetupComplete, frames, cycle, calls, rootStyles, rootsCreated>>

NextProps ==
    \/ Construct
    \/ \E proxy \in Proxies, key \in ProxyKeys, value \in InputValues[ctor.name] :
          ProxySet(proxy, key, value)
    \/ \E proxy \in Proxies, key \in ProxyKeys : ProxyHas(proxy, key)
    \/ \E name \in InputAttributes, text \in InputTexts[ctor.name] : HostSetAttribute(name, text)

\* a functional element out of the document, of a class with an
\* attribute-backed and a reflecting property or with an attribute:false one
InitProps ==
    /\ \E name \in {"labeled", "custom"} : ctor = FunctionalClass(name, FALSE, "none")
    /\ isConnected = FALSE
    /\ attributes = EmptyMap
    /\ InitElement

SpecProps == InitProps /\ [][NextProps]_vars

\* the last event of a write through a proxy: what the trap returned
Returned(events) == events[Len(events)].e = "returned" /\ events[Len(events)].v = Bool(TRUE)
IsProxyWrite(operation) == operation.name \in {proxy \o "[key] = value" : proxy \in Proxies}
IsProxyHas(operation) == operation.name \in {"key in " \o proxy : proxy \in Proxies}

\* C30: a write through props or props.set to a declared name does what the
\* assignment element[name] = value does (the property setter, reflection
\* included); a write to any other name, set included, is answered with
\* false and changes nothing of the element; key in props and key in
\* props.set are true exactly for the declared names, and for set on props.
C30_PropsForwardsDeclaredOnly ==
    /\ [][ (IsProxyWrite(op') /\ op'.n \in PropertyNames) =>
              \E direct \in {IF op'.n \in DOMAIN states
                             THEN Setter(Element(TRUE), op'.n, op'.new)
                             ELSE PrototypeSetter(Element(TRUE), op'.n, op'.new)} :
                 /\ states' = direct.states
                 /\ protoStates' = direct.protoStates
                 /\ vals' = direct.vals
                 /\ attributes' = direct.attributes
                 /\ raised' = direct.raised
                 /\ log'[1] = Event("setter", op'.n, op'.new)
                 /\ UNCHANGED members ]_vars
    /\ [][ (IsProxyWrite(op') /\ op'.n \notin PropertyNames) =>
              /\ ~Returned(log')
              /\ UNCHANGED <<states, protoStates, vals, attributes, members>> ]_vars
    /\ [][ IsProxyHas(op') =>
              (op'.new = Bool(TRUE) <=>
                 (op'.n \in PropertyNames \/ (op'.name = "key in props" /\ op'.n = "set"))) ]_vars

(***************************************************************************)
(* The name conversions, applied to identifiers: every word of at most     *)
(* MaxWord characters over a lowercase letter, two uppercase letters, a    *)
(* digit and the hyphen, and identifiers as the tests use them.            *)
(***************************************************************************)
WordAlphabet == {"a", "B", "C", "1", "-"}
RECURSIVE Words(_)
Words(n) == IF n = 0 THEN {""}
            ELSE Words(n - 1) \cup {w \o c : w \in Words(n - 1), c \in WordAlphabet}
TestIdentifiers ==
    {"XMLHttpRequest", "myHTMLElement", "myProperty", "MyComponent", "my-html-element",
     "a-b-c-d", "my-property", "component", "prop2Name", "getHTTPResponse"}
Identifiers == Words(MaxWord) \cup TestIdentifiers

\* camelAndPascalToKebab(str) is called, once per behaviour: the function has no state
ToKebab(str) ==
    /\ op = NoOperation
    /\ op' = Operation("camelAndPascalToKebab", str, Undefined, Str(camelAndPascalToKebab(str)))
    /\ log' = <<>>
    /\ raised' = FALSE
    /\ EngineUnchanged
    /\ UNCHANGED <<ctor, constructed, isConnected, renderRoot, mounted, _disposers,
                   _isSetupComplete, frames, cycle, calls, rootStyles, rootsCreated>>

\* kebabToCamel(str) is called, once per behaviour: the function has no state
ToCamel(str) ==
    /\ op = NoOperation
    /\ op' = Operation("kebabToCamel", str, Undefined, Str(kebabToCamel(str)))
    /\ log' = <<>>
    /\ raised' = FALSE
    /\ EngineUnchanged
    /\ UNCHANGED <<ctor, constructed, isConnected, renderRoot, mounted, _disposers,
                   _isSetupComplete, frames, cycle, calls, rootStyles, rootsCreated>>

NextNames ==
    \/ \E str \in Identifiers : ToKebab(str)
    \/ \E str \in Identifiers : ToCamel(str)

InitNames ==
    /\ ctor = Class("counter", FALSE)
    /\ isConnected = FALSE
    /\ attributes = EmptyMap
    /\ InitElement

SpecNames == InitNames /\ [][NextNames]_vars

\* a hyphen goes before the i-th character of str exactly when that
\* character is uppercase and follows a lowercase letter or a digit, or is
\* the last uppercase letter of a run of uppercase letters and a lowercase
\* letter follows it
HyphenBefore(str, i) ==
    /\ i >= 2
    /\ IsUpper(CharAt(str, i))
    /\ \/ IsLower(CharAt(str, i - 1)) \/ IsDigit(CharAt(str, i - 1))
       \/ /\ IsUpper(CharAt(str, i - 1))
          /\ i + 1 <= Len(str)
          /\ IsLower(CharAt(str, i + 1))
RECURSIVE HyphenatedFrom(_, _)
HyphenatedFrom(str, i) ==
    IF i > Len(str) THEN ""
    ELSE (IF HyphenBefore(str, i) THEN "-" ELSE "") \o LowerChar(CharAt(str, i))
         \o HyphenatedFrom(str, i + 1)

\* C31: camelAndPascalToKebab puts a hyphen before an uppercase letter that
\* follows a lowercase letter or digit and before the last uppercase letter
\* of a run that a lowercase letter follows, and lowercases everything; it
\* gives xml-http-request for XMLHttpRequest and my-html-element for
\* myHTMLElement; kebabToCamel gives aBCD for a-b-c-d.
C31_NameConversions ==
    /\ op.name = "camelAndPascalToKebab" => op.new = Str(HyphenatedFrom(op.n, 1))
    /\ (op.name = "camelAndPascalToKebab" /\ op.n = "XMLHttpRequest") =>
          op.new = Str("xml-http-request")
    /\ (op.name = "camelAndPascalToKebab" /\ op.n = "myHTMLElement") =>
          op.new = Str("my-html-element")
    /\ (op.name = "kebabToCamel" /\ op.n = "a-b-c-d") => op.new = Str("aBCD")
C31_Witness ==
    /\ op.name = "camelAndPascalToKebab"
    /\ op.n = "aBCa"
    /\ op.new = Str("a-b-ca")

\* C32: a disconnect of an element that is out of the document invokes every
\* registered disposer, then clears the disposer set, then resets
\* setup-complete, then calls the cleanup hook, so the hook finds the set
\* empty and the flag false; a hook that throws raises nothing, and the next
\* connect renders again.
C32_DisconnectOrder ==
    /\ [][ (op'.name = "disconnectedCallback" /\ ~isConnected') =>
              /\ Len(log') = Len(_disposers) + 3
              /\ \A i \in 1..Len(_disposers) :
                    log'[i].e = "disposer" /\ log'[i].n = _disposers[i]
              /\ log'[Len(_disposers) + 1].e = "_disposers.clear"
              /\ log'[Len(_disposers) + 2] = Event("_isSetupComplete", "", Bool(FALSE))
              /\ log'[Len(_disposers) + 3].e = "onCleanup"
              /\ _disposers' = <<>>
              /\ ~_isSetupComplete'
              /\ ~raised' ]_vars
    /\ [][ (op.name = "disconnectedCallback" /\ ~isConnected
              /\ op'.name = "connectedCallback") =>
              /\ calls'.connect = 1
              /\ Count(log', "render") = IF ctor.render THEN 1 ELSE 0 ]_vars
C32_Witness ==
    /\ op.name = "disconnectedCallback"
    /\ ~isConnected
    /\ Len(log) >= 5
    /\ log[Len(log)] = Event("onCleanup", "", Bool(TRUE))
    /\ _disposers = <<>>
    /\ ~_isSetupComplete
    /\ ~raised

\* C33: an attribute-change notification for a name without an entry in the
\* attribute-to-property map, or whose property has no config in the schema,
\* changes no cell, writes no attribute and raises nothing.
C33_UnmappedNotificationIsNoOp ==
    [][ ( /\ op'.name = "attributeChangedCallback"
          /\ \/ op'.n \notin DOMAIN _attributeToPropertyMap
             \/ OptionsOf(_attributeToPropertyMap[op'.n]).isNull ) =>
            /\ UNCHANGED <<states, protoStates, vals, attributes, _reflectingProperty>>
            /\ log' = <<>>
            /\ ~raised' ]_vars
C33_Witness ==
    /\ op.name = "attributeChangedCallback"
    /\ op.old # op.new
    /\ op.n \in DOMAIN _attributeToPropertyMap
    /\ OptionsOf(_attributeToPropertyMap[op.n]).isNull
    /\ log = <<>>
    /\ ~raised

(***************************************************************************)
(* The whole life of one element: the lifecycle callbacks together with    *)
(* property writes, attribute changes and a second, direct call of         *)
(* _setupProperties.                                                       *)
(***************************************************************************)
\* user code (the tests) calls element._setupProperties() on a constructed
\* element
SetupPropertiesCalled ==
    /\ constructed = "yes"
    /\ op' = Operation("_setupProperties", "", Undefined, Undefined)
    /\ Commit(_setupProperties(Element(TRUE)))
    /\ LifecycleUnchanged

NextFlags ==
    \/ Construct
    \/ \E connected \in BOOLEAN : ConnectedCallback(connected)
    \/ \E connected \in BOOLEAN : DisconnectedCallback(connected)
    \/ FrameFires
    \/ SetupPropertiesCalled
    \/ \E property \in PropertyNames, value \in InputValues[ctor.name] :
         SetProperty(property, value)
    \/ \E name \in InputAttributes, text \in InputTexts[ctor.name] :
         HostSetAttribute(name, text)
    \/ \E name \in InputAttributes : HostRemoveAttribute(name)

InitFlags ==
    /\ \E render \in BOOLEAN : ctor = Class("celled", render)
    /\ isConnected = FALSE
    /\ attributes = EmptyMap
    /\ InitElement

SpecFlags == InitFlags /\ [][NextFlags]_vars

\* C34: properties-initialized becomes true at the end of the one
\* installation pass, in the constructor, and no operation clears it or
\* installs again; setup-complete becomes true only in a connect that ran the
\* render step and false only in a disconnect of an element out of the
\* document; the operations that change one flag leave the other alone.
C34_OneShotFlags ==
    /\ [][ _hasSetupProperties => _hasSetupProperties' ]_vars
    /\ [][ (~_hasSetupProperties /\ _hasSetupProperties') =>
              /\ op'.name = "constructor"
              /\ Count(log', "defineProperty") = Len(Properties)
              /\ PropertyNames \subseteq DOMAIN states' \cup DOMAIN protoStates'
              /\ UNCHANGED _isSetupComplete ]_vars
    /\ [][ op'.name # "constructor" => Count(log', "defineProperty") = 0 ]_vars
    /\ [][ (~_isSetupComplete /\ _isSetupComplete') =>
              /\ op'.name = "connectedCallback"
              /\ Count(log', "render") = IF ctor.render THEN 1 ELSE 0
              /\ Count(log', "requestAnimationFrame") = 1
              /\ UNCHANGED _hasSetupProperties ]_vars
    /\ [][ (_isSetupComplete /\ ~_isSetupComplete') =>
              /\ op'.name = "disconnectedCallback"
              /\ ~isConnected'
              /\ UNCHANGED _hasSetupProperties ]_vars
    /\ [][ op'.name \notin {"connectedCallback", "disconnectedCallback"} =>
              UNCHANGED _isSetupComplete ]_vars
C34_Witness ==
    /\ op.name = "_setupProperties"
    /\ _hasSetupProperties
    /\ _isSetupComplete
    /\ cycle = 1
    /\ log = <<>>

\* C35: between operations the guard _reflectingProperty names no property,
\* also after a setter that ended because toAttribute threw; so a
\* notification of an attribute change made from outside is not swallowed by
\* the guard on account of a write that is over.
C35_GuardEmptyWhenQuiescent ==
    /\ [](constructed = "yes" => _reflectingProperty = NoProperty)
    /\ [][ ( /\ op'.name = "attributeChangedCallback"
             /\ op'.old # op'.new
             /\ op'.n \in DOMAIN _attributeToPropertyMap
             /\ ~OptionsOf(_attributeToPropertyMap[op'.n]).isNull ) =>
               Count(log', "setter") + (IF raised' THEN 1 ELSE 0) >= 1 ]_vars

\* C36: after installation the two name maps are inverse to each other: the
\* attribute name of every attribute-backed property maps back to that
\* property, every mapped attribute name is the name of its property, and the
\* maps have the same size, also when two properties have one attribute
\* name; so a change made from outside to the attribute a reflecting property
\* writes to enters the setter of that property.
C36_NameMapsInverse ==
    /\ [](constructed = "yes" =>
            /\ DOMAIN _propertyToAttributeMap = DOMAIN states
            /\ \A p \in DOMAIN _propertyToAttributeMap :
                  /\ _propertyToAttributeMap[p] \in DOMAIN _attributeToPropertyMap
                  /\ _attributeToPropertyMap[_propertyToAttributeMap[p]] = p
            /\ \A a \in DOMAIN _attributeToPropertyMap :
                  /\ _attributeToPropertyMap[a] \in DOMAIN _propertyToAttributeMap
                  /\ _propertyToAttributeMap[_attributeToPropertyMap[a]] = a
            /\ Cardinality(DOMAIN _attributeToPropertyMap)
                  = Cardinality(DOMAIN _propertyToAttributeMap))
    /\ [][ \A p \in DOMAIN _propertyToAttributeMap :
              ( /\ op'.name = "setAttribute"
                /\ op'.n = _propertyToAttributeMap[p]
                /\ IsReflected(p)
                /\ Count(log', "setter") >= 1 ) =>
                  \E i \in 1..Len(log') : log'[i].e = "setter" /\ log'[i].n = p ]_vars

\* C37: after installation the attribute names of the element's
\* attribute-to-property map are the names of its class's observedAttributes:
\* every mapped attribute is observed and every observed attribute is mapped,
\* also for a schema with an entry whose config is null.
C37_MappedIsObserved ==
    constructed = "yes" => DOMAIN _attributeToPropertyMap = Range(observedAttributes)

\* C38: whenever the element is connected and set up, its render root holds
\* exactly one copy of the render output (none for a class without render):
\* a reconnect leaves no output of an earlier connection cycle next to the
\* new one.
C38_OneCopyOfRenderOutput ==
    /\ mounted <= 1
    /\ (isConnected /\ _isSetupComplete /\ ctor.render) => mounted = 1

\* the attribute of property p holds what toAttribute gives for p's cell
MirrorsCell(p) ==
    LET attrName == _propertyToAttributeMap[p]
        attrValue == toAttribute(ReflectConverter(UserOptionsOf(p)), states[p])
    IN  attrValue.ok =>
           IF attrValue.v = Null THEN attrName \notin DOMAIN attributes
           ELSE /\ attrName \in DOMAIN attributes
                /\ attributes[attrName] = JSString(attrValue.v)

\* C39: in every state between operations of a constructed element, the
\* attribute of each reflect:true property mirrors its cell: absent exactly
\* when toAttribute of the cell's value is null, else equal to it as text;
\* also right after installation with only a declared default.
C39_AttributeMirrorsCell ==
    (constructed = "yes" /\ _reflectingProperty = NoProperty) =>
        \A p \in DOMAIN states : IsReflected(p) => MirrorsCell(p)

\* the scopes opened by the constructor (and by setup, in a functional
\* element) whose teardown has not been invoked: a teardown leaves
\* _disposers only in the drain of disconnectedCallback, which invokes it
ConstructionScopes == {"ctorScope"} \cup (IF ctor.setup THEN {"setupScope"} ELSE {})
LiveScopes == Range(_disposers) \cap ConstructionScopes

\* C40: whenever the element is connected and set up, the scopes opened at
\* construction are live; after a disconnect and a reconnect the element
\* does not run with a construction scope that was torn down.
C40_ConstructionScopesLive ==
    (constructed = "yes" /\ isConnected /\ _isSetupComplete) =>
        LiveScopes = ConstructionScopes

====
